---- MODULE Spec2Model ----
(***************************************************************************)
(* YouRoke: crossfader law, DJ store, projector sync channel and MIDI      *)
(* decoder, modelled from the TypeScript sources.                          *)
(*                                                                         *)
(* JavaScript numbers are modelled as exact rationals <<n, d>> in lowest   *)
(* terms with d > 0, so that 2 * value, value / total and data2 / 127 are  *)
(* computed, not assumed.                                                  *)
(***************************************************************************)
EXTENDS Integers, Sequences, FiniteSets, TLC

\* ------------------------------------------------------------------------
\* Bounds of the model
\* ------------------------------------------------------------------------
\* how many slider steps outside [0,1] the out-of-range inputs reach
OverRange == 3
\* number of steps of the crossfader range input (step="0.005")
SliderSteps == 200
\* largest 7-bit MIDI data value
MidiMax == 127
\* store mutations explored per behaviour
MaxMutations == 2
\* projector windows opened per behaviour
MaxOpens == 1
\* messages posted on the channel by other same-origin contexts
MaxForeign == 1

\* ------------------------------------------------------------------------
\* Exact rational arithmetic for JavaScript numbers
\* ------------------------------------------------------------------------
Abs(x) == IF x < 0 THEN 0 - x ELSE x

RECURSIVE Gcd(_, _)
Gcd(a, b) == IF b = 0 THEN a ELSE Gcd(b, a % b)

\* the rational n/d (d # 0) in lowest terms with a positive denominator
R(n, d) ==
  LET s == IF d < 0 THEN 0 - 1 ELSE 1
      g == Gcd(Abs(n), Abs(d))
  IN  <<(s * n) \div g, (s * d) \div g>>

Zero == R(0, 1)
Half == R(1, 2)
One == R(1, 1)
Two == R(2, 1)

\* sums and products are formed over the least common denominator and
\* after cancelling, which keeps the integers small
RAdd(a, b) ==
  LET g == Gcd(a[2], b[2])
  IN  R(a[1] * (b[2] \div g) + b[1] * (a[2] \div g), (a[2] \div g) * b[2])
RSub(a, b) ==
  LET g == Gcd(a[2], b[2])
  IN  R(a[1] * (b[2] \div g) - b[1] * (a[2] \div g), (a[2] \div g) * b[2])
RMul(a, b) ==
  LET g == Gcd(Abs(a[1]), b[2])
      h == Gcd(Abs(b[1]), a[2])
  IN  R((a[1] \div g) * (b[1] \div h), (a[2] \div h) * (b[2] \div g))
RDiv(a, b) == RMul(a, R(b[2], b[1]))
\* n1/d1 < n2/d2 for positive denominators, by comparing the integer parts
\* and then the reciprocals of the fractional parts (no products are formed)
RECURSIVE FracLt(_, _, _, _)
FracLt(n1, d1, n2, d2) ==
  LET q1 == n1 \div d1
      q2 == n2 \div d2
      r1 == n1 % d1
      r2 == n2 % d2
  IN  IF q1 # q2 THEN q1 < q2
      ELSE IF r2 = 0 THEN FALSE
      ELSE IF r1 = 0 THEN TRUE
      ELSE FracLt(d2, r2, d1, r1)
RLt(a, b) == FracLt(a[1], a[2], b[1], b[2])
RLe(a, b) == ~RLt(b, a)
\* Math.min / Math.max on two numbers
MathMin(a, b) == IF RLe(a, b) THEN a ELSE b
MathMax(a, b) == IF RLe(a, b) THEN b ELSE a
InUnit(a) == RLe(Zero, a) /\ RLe(a, One)

\* ------------------------------------------------------------------------
\* utils/crossfaderCurve.ts
\* ------------------------------------------------------------------------
CurveModes == {"linear", "cut"}

\* a plausible slip: opacity taken as half the volume instead of the
\* volume's share of the total
applyCenterFullCurve_HalfOpacity(value) ==
  LET deckAVolume == IF RLe(value, Half) THEN One ELSE RMul(RSub(One, value), Two)
      deckBVolume == IF RLe(value, Half) THEN RMul(value, Two) ELSE One
  IN  [deckAOpacity |-> RDiv(deckAVolume, Two),
       deckBOpacity |-> RDiv(deckBVolume, Two),
       deckAVolume |-> deckAVolume,
       deckBVolume |-> deckBVolume]

\* a plausible slip: a classic linear pan law (A = 1 - value, B = value)
applyCenterFullCurve_LinearPan(value) ==
  LET deckAVolume == RSub(One, value)
      deckBVolume == value
      totalVolume == RAdd(deckAVolume, deckBVolume)
  IN  [deckAOpacity |-> IF RLt(Zero, totalVolume) THEN RDiv(deckAVolume, totalVolume) ELSE Half,
       deckBOpacity |-> IF RLt(Zero, totalVolume) THEN RDiv(deckBVolume, totalVolume) ELSE Half,
       deckAVolume |-> deckAVolume,
       deckBVolume |-> deckBVolume]

applyCenterFullCurve(value) ==
  LET deckAVolume == IF RLe(value, Half) THEN One ELSE RMul(RSub(One, value), Two)
      deckBVolume == IF RLe(value, Half) THEN RMul(value, Two) ELSE One
      totalVolume == RAdd(deckAVolume, deckBVolume)
  IN  [deckAOpacity |-> IF RLt(Zero, totalVolume) THEN RDiv(deckAVolume, totalVolume) ELSE Half,
       deckBOpacity |-> IF RLt(Zero, totalVolume) THEN RDiv(deckBVolume, totalVolume) ELSE Half,
       deckAVolume |-> deckAVolume,
       deckBVolume |-> deckBVolume]

\* a plausible slip: the position is used as it comes
applyCurve_Unclamped(value, curve) == applyCenterFullCurve(value)

\* a plausible slip: the 'cut' curve is implemented (both decks full except
\* at the ends)
applyCurve_CutImplemented(value, curve) ==
  LET clampedValue == MathMax(Zero, MathMin(One, value))
  IN  IF curve = "cut" /\ RLt(Zero, clampedValue) /\ RLt(clampedValue, One)
      THEN applyCenterFullCurve(Half)
      ELSE applyCenterFullCurve(clampedValue)

applyCurve(value, curve) ==
  LET clampedValue == MathMax(Zero, MathMin(One, value))
  IN  applyCenterFullCurve(clampedValue)

midiToNormalized(midiValue) ==
  RDiv(MathMax(Zero, MathMin(R(MidiMax, 1), R(midiValue, 1))), R(MidiMax, 1))

\* ------------------------------------------------------------------------
\* types/index.ts: default states
\* ------------------------------------------------------------------------
\* JavaScript null (seekTo: number | null)
Null == <<>>

DEFAULT_EQ == [high |-> Zero, mid |-> Zero, low |-> Zero]

DEFAULT_MASTER == [volume |-> One, eq |-> DEFAULT_EQ]

DEFAULT_DECK_STATE ==
  [videoId |-> "", title |-> "", artist |-> "", playing |-> FALSE,
   lyrics |-> "", eq |-> DEFAULT_EQ, gain |-> One, filter |-> Zero,
   currentTime |-> Zero, duration |-> Zero, seekTo |-> Null,
   playbackRate |-> One]

DEFAULT_DJ_STATE ==
  [crossfaderValue |-> Half, crossfaderCurve |-> "linear",
   deckA |-> DEFAULT_DECK_STATE, deckB |-> DEFAULT_DECK_STATE,
   master |-> DEFAULT_MASTER,
   audioEngineStarted |-> FALSE, isMidiConnected |-> FALSE]


\* DDJ200 constants
CROSSFADER_CC == 51
DECK_A_PLAY_NOTE == 11
DECK_A_CUE_NOTE == 12

\* object spread { ...prev, ...patch }
Spread(prev, patch) ==
  [f \in (DOMAIN prev) \cup (DOMAIN patch) |->
     IF f \in DOMAIN patch THEN patch[f] ELSE prev[f]]

\* ------------------------------------------------------------------------
\* hooks/useMidiController.ts: handleMidiMessage
\* ------------------------------------------------------------------------
MidiCallbacks ==
  {"onCrossfaderChange", "onDeckAPlayToggle", "onDeckBPlayToggle",
   "onDeckACue", "onDeckBCue"}
\* the callbacks App passes to useMidiController
AppCallbacks == {"onCrossfaderChange", "onDeckAPlayToggle", "onDeckBPlayToggle"}

\* callbacksRef.current.cb?.(arg): nothing happens when cb was not supplied
Invoke(supplied, cb, arg) ==
  IF cb \in supplied THEN <<[cb |-> cb, arg |-> arg]>> ELSE <<>>

\* a plausible slip: the deck is taken from the note number, not the channel
handleMidiMessage_NoChannel(data, supplied) ==
  IF Len(data) < 2 THEN [calls |-> <<>>, log |-> <<>>]
  ELSE
    LET status == data[1]
        data1 == data[2]
        data2 == IF Len(data) > 2 THEN data[3] ELSE 0
        messageType == status - (status % 16)
    IN  IF messageType = 176 /\ data1 = CROSSFADER_CC
        THEN [calls |-> Invoke(supplied, "onCrossfaderChange", midiToNormalized(data2)),
              log |-> <<"message", "crossfader">>]
        ELSE IF messageType = 144 /\ data2 > 0 /\ data1 = DECK_A_PLAY_NOTE
        THEN [calls |-> Invoke(supplied, "onDeckAPlayToggle", Null),
              log |-> <<"message", "deckAPlay">>]
        ELSE IF messageType = 144 /\ data2 > 0 /\ data1 = DECK_A_CUE_NOTE
        THEN [calls |-> Invoke(supplied, "onDeckACue", Null),
              log |-> <<"message", "deckACue">>]
        ELSE [calls |-> <<>>, log |-> <<"message", "unmapped">>]

\* a plausible slip: the crossfader value is passed on as the raw 7-bit value
handleMidiMessage_RawValue(data, supplied) ==
  IF Len(data) < 2 THEN [calls |-> <<>>, log |-> <<>>]
  ELSE
    LET status == data[1]
        data1 == data[2]
        data2 == IF Len(data) > 2 THEN data[3] ELSE 0
        messageType == status - (status % 16)
        channel == status % 16
        noteOn == messageType = 144 /\ data2 > 0
    IN  IF messageType = 176 /\ data1 = CROSSFADER_CC
        THEN [calls |-> Invoke(supplied, "onCrossfaderChange", R(data2, 1)),
              log |-> <<"message", "crossfader">>]
        ELSE IF noteOn /\ data1 = DECK_A_PLAY_NOTE /\ channel = 0
        THEN [calls |-> Invoke(supplied, "onDeckAPlayToggle", Null),
              log |-> <<"message", "deckAPlay">>]
        ELSE IF noteOn /\ data1 = DECK_A_PLAY_NOTE /\ channel = 1
        THEN [calls |-> Invoke(supplied, "onDeckBPlayToggle", Null),
              log |-> <<"message", "deckBPlay">>]
        ELSE IF noteOn /\ data1 = DECK_A_CUE_NOTE /\ channel = 0
        THEN [calls |-> Invoke(supplied, "onDeckACue", Null),
              log |-> <<"message", "deckACue">>]
        ELSE IF noteOn /\ data1 = DECK_A_CUE_NOTE /\ channel = 1
        THEN [calls |-> Invoke(supplied, "onDeckBCue", Null),
              log |-> <<"message", "deckBCue">>]
        ELSE [calls |-> <<>>, log |-> <<"message", "unmapped">>]

\* a plausible slip: a Note-On is taken as a press whatever its velocity
handleMidiMessage_AnyVelocity(data, supplied) ==
  IF Len(data) < 2 THEN [calls |-> <<>>, log |-> <<>>]
  ELSE
    LET status == data[1]
        data1 == data[2]
        data2 == IF Len(data) > 2 THEN data[3] ELSE 0
        messageType == status - (status % 16)
        channel == status % 16
        noteOn == messageType = 144
    IN  IF messageType = 176 /\ data1 = CROSSFADER_CC
        THEN [calls |-> Invoke(supplied, "onCrossfaderChange", midiToNormalized(data2)),
              log |-> <<"message", "crossfader">>]
        ELSE IF noteOn /\ data1 = DECK_A_PLAY_NOTE /\ channel = 0
        THEN [calls |-> Invoke(supplied, "onDeckAPlayToggle", Null),
              log |-> <<"message", "deckAPlay">>]
        ELSE IF noteOn /\ data1 = DECK_A_PLAY_NOTE /\ channel = 1
        THEN [calls |-> Invoke(supplied, "onDeckBPlayToggle", Null),
              log |-> <<"message", "deckBPlay">>]
        ELSE IF noteOn /\ data1 = DECK_A_CUE_NOTE /\ channel = 0
        THEN [calls |-> Invoke(supplied, "onDeckACue", Null),
              log |-> <<"message", "deckACue">>]
        ELSE IF noteOn /\ data1 = DECK_A_CUE_NOTE /\ channel = 1
        THEN [calls |-> Invoke(supplied, "onDeckBCue", Null),
              log |-> <<"message", "deckBCue">>]
        ELSE [calls |-> <<>>, log |-> <<"message", "unmapped">>]

\* a plausible slip: every Control-Change is taken as the crossfader
handleMidiMessage_AnyController(data, supplied) ==
  IF Len(data) < 2 THEN [calls |-> <<>>, log |-> <<>>]
  ELSE
    LET status == data[1]
        data1 == data[2]
        data2 == IF Len(data) > 2 THEN data[3] ELSE 0
        messageType == status - (status % 16)
        channel == status % 16
        noteOn == messageType = 144 /\ data2 > 0
    IN  IF messageType = 176
        THEN [calls |-> Invoke(supplied, "onCrossfaderChange", midiToNormalized(data2)),
              log |-> <<"message", "crossfader">>]
        ELSE IF noteOn /\ data1 = DECK_A_PLAY_NOTE /\ channel = 0
        THEN [calls |-> Invoke(supplied, "onDeckAPlayToggle", Null),
              log |-> <<"message", "deckAPlay">>]
        ELSE IF noteOn /\ data1 = DECK_A_PLAY_NOTE /\ channel = 1
        THEN [calls |-> Invoke(supplied, "onDeckBPlayToggle", Null),
              log |-> <<"message", "deckBPlay">>]
        ELSE IF noteOn /\ data1 = DECK_A_CUE_NOTE /\ channel = 0
        THEN [calls |-> Invoke(supplied, "onDeckACue", Null),
              log |-> <<"message", "deckACue">>]
        ELSE IF noteOn /\ data1 = DECK_A_CUE_NOTE /\ channel = 1
        THEN [calls |-> Invoke(supplied, "onDeckBCue", Null),
              log |-> <<"message", "deckBCue">>]
        ELSE [calls |-> <<>>, log |-> <<"message", "unmapped">>]

\* data is the event's byte array; the result lists the callbacks invoked, in
\* order, and the console lines written
handleMidiMessage(data, supplied) ==
  IF Len(data) < 2 THEN [calls |-> <<>>, log |-> <<>>]
  ELSE
    LET status == data[1]
        data1 == data[2]
        data2 == IF Len(data) > 2 THEN data[3] ELSE 0
        \* status & 0xf0 and status & 0x0f
        messageType == status - (status % 16)
        channel == status % 16
        noteOn == messageType = 144 /\ data2 > 0
    IN  IF messageType = 176 /\ data1 = CROSSFADER_CC
        THEN [calls |-> Invoke(supplied, "onCrossfaderChange", midiToNormalized(data2)),
              log |-> <<"message", "crossfader">>]
        ELSE IF noteOn /\ data1 = DECK_A_PLAY_NOTE /\ channel = 0
        THEN [calls |-> Invoke(supplied, "onDeckAPlayToggle", Null),
              log |-> <<"message", "deckAPlay">>]
        ELSE IF noteOn /\ data1 = DECK_A_PLAY_NOTE /\ channel = 1
        THEN [calls |-> Invoke(supplied, "onDeckBPlayToggle", Null),
              log |-> <<"message", "deckBPlay">>]
        ELSE IF noteOn /\ data1 = DECK_A_CUE_NOTE /\ channel = 0
        THEN [calls |-> Invoke(supplied, "onDeckACue", Null),
              log |-> <<"message", "deckACue">>]
        ELSE IF noteOn /\ data1 = DECK_A_CUE_NOTE /\ channel = 1
        THEN [calls |-> Invoke(supplied, "onDeckBCue", Null),
              log |-> <<"message", "deckBCue">>]
        ELSE [calls |-> <<>>, log |-> <<"message", "unmapped">>]

\* ------------------------------------------------------------------------
\* State
\* ------------------------------------------------------------------------
\* components/VideoPlayer.tsx as VideoMixer mounts it for a deck: isReadyRef,
\* the seekTo value the seek effect's dependency list last saw, and the
\* calls of player.seekTo made so far
PlayersInit == [d \in {"deckA", "deckB"} |-> [ready |-> FALSE, seen |-> <<>>, seeks |-> <<>>]]

VARIABLES
  curvePos,    \* applyCurve: the value argument
  curveMode,   \* applyCurve: the _curve argument
  curveOut,    \* applyCurve: the returned CrossfaderOutputs (none before the call)
  midiData,    \* handleMidiMessage: the bytes of the received event
  midiSupplied,\* handleMidiMessage: the callbacks the caller supplied
  midiResult,  \* handleMidiMessage: callbacks invoked and lines logged (none before the call)
  store,       \* the primary's zustand store (DJStoreState part)
  midiAttached,\* the MIDI hook has attached handleMidiMessage to an input
  projState,   \* projector window: "closed", "opening" (not mounted yet), "mounted"
  timers,      \* armed setTimeout callbacks of handleOpenProjector
  mirror,      \* ProjectorView's useState copy of the state
  inbox,       \* messages queued for the projector's channel.onmessage
  nPosted,     \* messages posted on the channel so far (gives the publish order)
  lastPosted,  \* the last message the primary handed to channel.postMessage
  lastMutId,   \* id of the message published for the latest store mutation (0: none)
  inOrder,     \* that message was delivered, and no earlier-published one after it
  nMut,        \* store mutations so far
  nOpen,       \* projector windows opened so far
  players,     \* the primary's VideoPlayer of each deck: its refs and its seek effect
  nForeign,    \* messages posted by other contexts so far
  lastOp,      \* the handler that ran last (op), with the argument it was given
  platformMidi,    \* navigator.requestMIDIAccess exists
  midiRequest,     \* initMidi: "unrequested", "pending", "granted", "rejected", "unsupported"
  isMidiConnected, \* useMidiController state
  isMidiSupported, \* useMidiController state
  midiDeviceName,  \* useMidiController state (Null or a name)
  midiAccessRef,   \* midiAccessRef.current is set
  midiInputs,      \* midiAccess.inputs: the devices present, in enumeration order
  inputHandlers,   \* inputs whose onmidimessage is handleMidiMessage
  detachedHandlers,\* unplugged ports whose onmidimessage is still handleMidiMessage
  hookMounted,     \* the component that uses useMidiController is mounted
  stateChanges,    \* statechange events dispatched and not handled yet
  nHotplug,        \* devices attached or detached so far
  bpmWaveform,     \* detectBPM: the waveform argument
  bpmDuration,     \* detectBPM: the durationSeconds argument
  bpmOut,          \* detectBPM: the returned number (none before the call)
  waveformCache,   \* the waveformCache Map: cache key -> waveform
  waveSlots,       \* the waveform requests being handled, each at its await
  nWaveRequests,   \* waveform requests received so far
  lastResponse,    \* the response the handler step that ran last has sent (none: <<>>)
  firstAnalysed,   \* cache key -> the first waveform computed from audio for it
  genBuffer,       \* generateWaveformData: the audioBuffer argument (its bytes)
  genSampleCount,  \* generateWaveformData: the sampleCount argument
  genOut,          \* generateWaveformData: the returned series (none before the call)
  synSamples,      \* generateSyntheticWaveform: the samples argument
  synDuration,     \* generateSyntheticWaveform: the duration argument
  synVideoId,      \* generateSyntheticWaveform: the videoId argument (char codes)
  synIndex,        \* generateSyntheticWaveform: the loop index i looked at
  synSin,          \* the values Math.sin has at the arguments iteration i passes to it
  synOut,          \* waveform[i] of the first call (none before the call)
  synAgain,        \* waveform[i] of the latest repeated call (none before it)
  synCalls         \* calls of generateSyntheticWaveform so far

curveVars == <<curvePos, curveMode, curveOut>>
midiVars == <<midiData, midiSupplied, midiResult>>
syncVars ==
  <<store, midiAttached, projState, timers, mirror, inbox, nPosted, lastPosted,
    lastMutId, inOrder, nMut, nOpen, players, nForeign, lastOp>>
hookVars ==
  <<platformMidi, midiRequest, isMidiConnected, isMidiSupported, midiDeviceName,
    midiAccessRef, midiInputs, inputHandlers, stateChanges, nHotplug,
    detachedHandlers, hookMounted>>
bpmVars == <<bpmWaveform, bpmDuration, bpmOut>>
waveVars ==
  <<waveformCache, waveSlots, nWaveRequests, lastResponse, firstAnalysed>>
\* the state of the API server
genVars == <<genBuffer, genSampleCount, genOut>>
synVars ==
  <<synSamples, synDuration, synVideoId, synIndex, synSin, synOut, synAgain, synCalls>>
\* the state of the two waveform generators' calls
analyserVars == <<genVars, synVars>>
serverVars == <<bpmVars, waveVars, analyserVars>>
\* the state outside the curve, the decoder call and the sync protocol
otherVars == <<hookVars, serverVars>>
vars == <<curveVars, midiVars, syncVars, otherVars>>

NoOutput == <<>>

\* positions the callers can produce: the range input's steps (and values
\* beyond its ends), the quick-position buttons and normalised MIDI values
SliderPositions == { R(k, SliderSteps) : k \in (0 - OverRange)..(SliderSteps + OverRange) }
QuickPositions == { Zero, Half, One }
MidiPositions == { midiToNormalized(m) : m \in 0..MidiMax }
Positions == SliderPositions \cup QuickPositions \cup MidiPositions

CurveIdle == curvePos = Half /\ curveMode = "linear" /\ curveOut = NoOutput
MidiIdle == midiData = <<>> /\ midiSupplied = {} /\ midiResult = NoOutput

\* the MIDI hook before its mount effect has run, on a platform with MIDI
\* access and no device
HookIdle ==
  /\ platformMidi = TRUE
  /\ midiRequest = "unrequested"
  /\ isMidiConnected = FALSE
  /\ isMidiSupported = TRUE
  /\ midiDeviceName = Null
  /\ midiAccessRef = FALSE
  /\ midiInputs = <<>>
  /\ inputHandlers = {}
  /\ stateChanges = 0
  /\ nHotplug = 0
  /\ detachedHandlers = {}
  /\ hookMounted = TRUE

BpmIdle == bpmWaveform = <<>> /\ bpmDuration = Zero /\ bpmOut = NoOutput

\* the clients of the waveform endpoint: the seek bar of each deck, with at
\* most one request awaiting its answer
Slots == {"A", "B"}

\* a slot with no request in it (ticked: the interval has fired for this
\* request; idleTick: its last firing came after an earlier one and found
\* receivedBytes === lastReceivedBytes)
IdleSlot ==
  [pc |-> "idle", videoId |-> "", samples |-> 0, duration |-> 0, received |-> 0,
   lastReceivedBytes |-> 0, timeoutArmed |-> FALSE, intervalArmed |-> FALSE,
   aborted |-> "no", late |-> FALSE, ticked |-> FALSE, idleTick |-> FALSE]

\* the API server after start: empty cache, no request
WaveIdle ==
  /\ waveformCache = <<>>
  /\ waveSlots = [s \in Slots |-> IdleSlot]
  /\ nWaveRequests = 0
  /\ lastResponse = <<>>
  /\ firstAnalysed = <<>>

\* no call of generateWaveformData has been made
GenIdle == genBuffer = <<>> /\ genSampleCount = 0 /\ genOut = NoOutput
\* no call of generateSyntheticWaveform has been made
SynIdle ==
  /\ synSamples = 0
  /\ synDuration = 0
  /\ synVideoId = <<>>
  /\ synIndex = 0
  /\ synSin = <<>>
  /\ synOut = NoOutput
  /\ synAgain = NoOutput
  /\ synCalls = 0
AnalyserIdle == GenIdle /\ SynIdle

ServerIdle == BpmIdle /\ WaveIdle /\ AnalyserIdle

OtherIdle == HookIdle /\ ServerIdle

\* the state after App has mounted: default store, no projector window
SyncInit ==
  /\ store = DEFAULT_DJ_STATE
  /\ midiAttached = FALSE
  /\ projState = "closed"
  /\ timers = 0
  /\ mirror = DEFAULT_DJ_STATE
  /\ inbox = {}
  /\ nPosted = 0
  /\ lastPosted = <<>>
  /\ lastMutId = 0
  /\ inOrder = FALSE
  /\ nMut = 0
  /\ nOpen = 0
  /\ players = PlayersInit
  /\ nForeign = 0
  /\ lastOp = [op |-> "mount", given |-> Null]

\* ------------------------------------------------------------------------
\* applyCurve on its own
\* ------------------------------------------------------------------------
InitCurve ==
  /\ curvePos \in Positions
  /\ curveMode \in CurveModes
  /\ curveOut = NoOutput
  /\ MidiIdle
  /\ SyncInit
  /\ OtherIdle

\* one evaluation of applyCurve on the drawn arguments
CurveEvaluate ==
  /\ curveOut = NoOutput
  /\ curveOut' = <<applyCurve(curvePos, curveMode)>>
  /\ UNCHANGED <<curvePos, curveMode, midiVars, syncVars, otherVars>>

NextCurve == CurveEvaluate

SpecCurve == InitCurve /\ [][NextCurve]_vars

\* ------------------------------------------------------------------------
\* handleMidiMessage on its own
\* ------------------------------------------------------------------------
\* status bytes 0x80..0xFF: every message type on every channel
StatusBytes == 128..255
\* controller / note numbers around the mapped ones
Data1Bytes == {0, 10, 11, 12, 13, 50, 51, 52, MidiMax}
Data2Bytes == 0..MidiMax

\* events of one and two bytes (data.length < 2 returns; a missing data2 is 0)
ShortMidiEvents ==
  { <<s>> : s \in {144, 176} }
    \cup { <<s, d1>> : s \in {144, 145, 176}, d1 \in Data1Bytes }

\* a short event, any three-byte event over the byte sets above, or a
\* Note-On with velocity 0 for any note number on any channel
InitMidi ==
  /\ midiData \in ShortMidiEvents
       \cup { <<s, d1, d2>> : s \in StatusBytes, d1 \in Data1Bytes, d2 \in Data2Bytes }
       \cup { <<s, d1, 0>> : s \in 144..159, d1 \in 0..MidiMax }
  /\ midiSupplied \in {MidiCallbacks, AppCallbacks}
  /\ midiResult = NoOutput
  /\ CurveIdle
  /\ SyncInit
  /\ OtherIdle

\* one MIDIMessageEvent handled by the hook
MidiDecode ==
  /\ midiResult = NoOutput
  /\ midiResult' = <<handleMidiMessage(midiData, midiSupplied)>>
  /\ UNCHANGED <<midiData, midiSupplied, curveVars, syncVars, otherVars>>

NextMidi == MidiDecode

SpecMidi == InitMidi /\ [][NextMidi]_vars

\* ------------------------------------------------------------------------
\* stores/djStore.ts: the object each action passes to zustand's set
\* ------------------------------------------------------------------------
Decks == {"deckA", "deckB"}

\* a plausible slip: the value is stored as given
setCrossfader_NoClamp(value) == [crossfaderValue |-> value]

setCrossfader(value) ==
  LET clampedValue == MathMax(Zero, MathMin(One, value))
  IN  [crossfaderValue |-> clampedValue]

setCurve(curve) == [crossfaderCurve |-> curve]

\* a plausible slip: the deck is replaced by the updates
updateDeck_Replace(s, d, updates) == d :> updates

\* updateDeckA / updateDeckB
updateDeck(s, d, updates) == d :> Spread(s[d], updates)

\* toggleDeckAPlay / toggleDeckBPlay
toggleDeckPlay(s, d) == d :> Spread(s[d], [playing |-> ~s[d].playing])

\* setDeckAPlaying / setDeckBPlaying
setDeckPlaying(s, d, playing) == d :> Spread(s[d], [playing |-> playing])

setMidiConnected(connected) == [isMidiConnected |-> connected]

\* startAudioEngine when the AudioContext could be created; when creating it
\* throws, the error is logged and set is not called
startAudioEngine == [audioEngineStarted |-> TRUE]

\* setDeckAEQ / setDeckBEQ
setDeckEQ(s, d, eq) == d :> Spread(s[d], [eq |-> Spread(s[d].eq, eq)])

\* setDeckAGain / setDeckBGain
setDeckGain(s, d, gain) ==
  d :> Spread(s[d], [gain |-> MathMax(Zero, MathMin(R(3, 2), gain))])

setMasterEQ(s, eq) == [master |-> Spread(s.master, [eq |-> Spread(s.master.eq, eq)])]

setMasterVolume(s, volume) ==
  [master |-> Spread(s.master, [volume |-> MathMax(Zero, MathMin(One, volume))])]

\* seekDeckA / seekDeckB
seekDeck(s, d, time) == d :> Spread(s[d], [seekTo |-> time])

\* clearSeekA / clearSeekB
clearSeek(s, d) == d :> Spread(s[d], [seekTo |-> Null])

getStoreState(s) ==
  [crossfaderValue |-> s.crossfaderValue,
   crossfaderCurve |-> s.crossfaderCurve,
   deckA |-> s.deckA,
   deckB |-> s.deckB,
   master |-> s.master,
   audioEngineStarted |-> s.audioEngineStarted,
   isMidiConnected |-> s.isMidiConnected]

\* ------------------------------------------------------------------------
\* components/ProjectorView.tsx: applying a received message to the mirror
\* ------------------------------------------------------------------------
\* a plausible slip: a STATE_UPDATE replaces the mirror by the patch
handleBroadcastMessage_ReplaceOnUpdate(prev, message) == message.payload

\* a plausible slip: a FULL_STATE is merged into the previous mirror
handleBroadcastMessage_MergeOnFull(prev, message) == Spread(prev, message.payload)

\* a plausible slip: nested records of the patch are merged into the
\* previous ones instead of replacing them
handleBroadcastMessage_DeepMerge(prev, message) ==
  CASE message.type = "FULL_STATE" -> message.payload
    [] message.type = "STATE_UPDATE" ->
         [f \in (DOMAIN prev) \cup (DOMAIN message.payload) |->
            IF f \notin DOMAIN message.payload THEN prev[f]
            ELSE IF f \in {"deckA", "deckB", "master"} /\ f \in DOMAIN prev
            THEN Spread(prev[f], message.payload[f])
            ELSE message.payload[f]]
    [] OTHER -> prev

handleBroadcastMessage(prev, message) ==
  CASE message.type = "FULL_STATE" -> message.payload
    [] message.type = "STATE_UPDATE" -> Spread(prev, message.payload)
    [] OTHER -> prev

\* ------------------------------------------------------------------------
\* The sync channel (hooks/useBroadcastChannel.ts) and App's subscription
\* ------------------------------------------------------------------------
\* the empty object {}
EmptyObject == <<>>

\* channel.postMessage from one context: the message reaches the projector's
\* onmessage queue only if the projector is subscribed and is not the sender
ChannelPost(from, type, payload) ==
  LET m == [id |-> nPosted + 1, type |-> type, payload |-> payload, from |-> from]
  IN  /\ nPosted' = nPosted + 1
      /\ inbox' = IF projState = "mounted" /\ from # "projector"
                  THEN inbox \cup {m} ELSE inbox
      /\ lastPosted' = IF from = "primary" THEN <<m>> ELSE lastPosted

\* a plausible slip: the subscription publishes the changed fields as a
\* STATE_UPDATE
StoreSet_PatchPublish(op, arg, partial) ==
  /\ nMut < MaxMutations
  /\ store' = Spread(store, partial)
  /\ nMut' = nMut + 1
  /\ ChannelPost("primary", "STATE_UPDATE", partial)
  /\ lastMutId' = nPosted + 1
  /\ inOrder' = FALSE
  /\ lastOp' = [op |-> op, given |-> arg]
  /\ UNCHANGED <<projState, timers, mirror, nOpen, players, nForeign, curveVars, midiVars, serverVars>>

\* a plausible slip: the subscription publishes the state before the change
StoreSet_StalePublish(op, arg, partial) ==
  /\ nMut < MaxMutations
  /\ store' = Spread(store, partial)
  /\ nMut' = nMut + 1
  /\ ChannelPost("primary", "FULL_STATE", getStoreState(store))
  /\ lastMutId' = nPosted + 1
  /\ inOrder' = FALSE
  /\ lastOp' = [op |-> op, given |-> arg]
  /\ UNCHANGED <<projState, timers, mirror, nOpen, players, nForeign, curveVars, midiVars, serverVars>>

\* zustand set(partial) followed by the listener App subscribed:
\* postMessage({ type: 'FULL_STATE', payload: getStoreState() })
StoreApply(op, arg, partial) ==
  /\ store' = Spread(store, partial)
  /\ nMut' = nMut + 1
  /\ ChannelPost("primary", "FULL_STATE", getStoreState(store'))
  /\ lastMutId' = nPosted + 1
  /\ inOrder' = FALSE
  /\ lastOp' = [op |-> op, given |-> arg]
  /\ UNCHANGED <<projState, timers, mirror, nOpen, nForeign, curveVars, midiVars, serverVars>>

\* a store action called by the user interface or the MIDI hook, as many
\* times as the exploration allows
StoreSet(op, arg, partial) ==
  /\ nMut < MaxMutations
  /\ StoreApply(op, arg, partial)
  /\ UNCHANGED players

Mutate(op, arg, partial) ==
  StoreSet(op, arg, partial) /\ UNCHANGED <<midiAttached, otherVars>>

\* ------------------------------------------------------------------------
\* Store actions as the UI, the players and the MIDI hook call them
\* ------------------------------------------------------------------------
SetCrossfader(value) == Mutate("setCrossfader", value, setCrossfader(value))
SetCurve(curve) == Mutate("setCurve", curve, setCurve(curve))
UpdateDeck(d, updates) == Mutate("updateDeck", <<d, updates>>, updateDeck(store, d, updates))
ToggleDeckPlay(d) == Mutate("toggleDeckPlay", d, toggleDeckPlay(store, d))
SetDeckPlaying(d, playing) ==
  Mutate("setDeckPlaying", <<d, playing>>, setDeckPlaying(store, d, playing))
StartAudioEngine == Mutate("startAudioEngine", Null, startAudioEngine)
SetDeckEQ(d, eq) == Mutate("setDeckEQ", <<d, eq>>, setDeckEQ(store, d, eq))
SetDeckGain(d, gain) == Mutate("setDeckGain", <<d, gain>>, setDeckGain(store, d, gain))
SetMasterEQ(eq) == Mutate("setMasterEQ", eq, setMasterEQ(store, eq))
SetMasterVolume(volume) == Mutate("setMasterVolume", volume, setMasterVolume(store, volume))
SeekDeck(d, time) == Mutate("seekDeck", <<d, time>>, seekDeck(store, d, time))
ClearSeek(d) == Mutate("clearSeek", d, clearSeek(store, d))

\* requestMIDIAccess resolved with at least one input: setupMidiInputs
\* attaches handleMidiMessage and sets isMidiConnected, and App's effect
\* copies the flag into the store
MidiAccessGranted ==
  /\ ~midiAttached
  /\ midiAttached' = TRUE
  /\ StoreSet("setMidiConnected", TRUE, setMidiConnected(TRUE))
  /\ UNCHANGED otherVars

\* a MIDI event on an attached input: handleMidiMessage, then the callback
\* App supplied (handleCrossfaderChange, handleDeckAPlayToggle,
\* handleDeckBPlayToggle)
MidiMessage(data) ==
  /\ midiAttached
  /\ LET r == handleMidiMessage(data, AppCallbacks)
     IN  IF Len(r.calls) = 0
         THEN /\ lastOp' = [op |-> "midiMessage", given |-> data]
              /\ UNCHANGED <<store, midiAttached, projState, timers, mirror, inbox,
                             nPosted, lastPosted, lastMutId, inOrder, nMut, nOpen, players,
                             nForeign, curveVars, midiVars, otherVars>>
         ELSE IF r.calls[1].cb = "onCrossfaderChange"
         THEN Mutate("midiMessage", data, setCrossfader(r.calls[1].arg))
         ELSE IF r.calls[1].cb = "onDeckAPlayToggle"
         THEN Mutate("midiMessage", data, toggleDeckPlay(store, "deckA"))
         ELSE Mutate("midiMessage", data, toggleDeckPlay(store, "deckB"))

\* ------------------------------------------------------------------------
\* The projector window
\* ------------------------------------------------------------------------
\* handleOpenProjector when no projector window is open and window.open
\* succeeds (otherwise it focuses the window or does nothing): the window
\* starts loading and the 1000 ms timer is armed
OpenProjector ==
  /\ projState = "closed"
  /\ nOpen < MaxOpens
  /\ projState' = "opening"
  /\ timers' = timers + 1
  /\ nOpen' = nOpen + 1
  /\ lastOp' = [op |-> "openProjector", given |-> Null]
  /\ UNCHANGED <<store, midiAttached, mirror, inbox, nPosted, lastPosted, lastMutId,
                 inOrder, nMut, players, nForeign, curveVars, midiVars, otherVars>>

\* the timer armed by handleOpenProjector fires
OpenTimerFires ==
  /\ timers > 0
  /\ timers' = timers - 1
  /\ ChannelPost("primary", "FULL_STATE", getStoreState(store))
  /\ lastOp' = [op |-> "openTimer", given |-> Null]
  /\ UNCHANGED <<store, midiAttached, projState, mirror, lastMutId, inOrder, nMut,
                 nOpen, players, nForeign, curveVars, midiVars, otherVars>>

\* ProjectorView mounts: useState(DEFAULT_DJ_STATE), the channel is created
\* with onmessage set, and the mount effect posts STATE_UPDATE {} (the
\* primary's channel has no onmessage, so nothing handles it there)
ProjectorMount ==
  /\ projState = "opening"
  /\ projState' = "mounted"
  /\ mirror' = DEFAULT_DJ_STATE
  /\ ChannelPost("projector", "STATE_UPDATE", EmptyObject)
  /\ lastOp' = [op |-> "projectorMount", given |-> Null]
  /\ UNCHANGED <<store, midiAttached, timers, lastMutId, inOrder, nMut, nOpen, players,
                 nForeign, curveVars, midiVars, otherVars>>

\* the user closes the projector window: its channel and its state are gone
ProjectorClose ==
  /\ projState \in {"opening", "mounted"}
  /\ projState' = "closed"
  /\ mirror' = DEFAULT_DJ_STATE
  /\ inbox' = {}
  /\ inOrder' = FALSE
  /\ lastOp' = [op |-> "projectorClose", given |-> Null]
  /\ UNCHANGED <<store, midiAttached, timers, nPosted, lastPosted, lastMutId, nMut,
                 nOpen, players, nForeign, curveVars, midiVars, otherVars>>

\* channel.onmessage in the projector: handleBroadcastMessage(event.data);
\* queued messages are taken in any order
Deliver(m) ==
  /\ projState = "mounted"
  /\ m \in inbox
  /\ mirror' = handleBroadcastMessage(mirror, m)
  /\ inbox' = inbox \ {m}
  /\ inOrder' = IF m.id = lastMutId THEN TRUE
                ELSE IF m.id < lastMutId THEN FALSE ELSE inOrder
  /\ lastOp' = [op |-> "deliver", given |-> m]
  /\ UNCHANGED <<store, midiAttached, projState, timers, nPosted, lastPosted,
                 lastMutId, nMut, nOpen, players, nForeign, curveVars, midiVars, otherVars>>

\* a plausible slip: App hands useBroadcastChannel a handler that applies
\* what arrives to the store (store.applyStateUpdate exists for that)
ExternalPost_PrimaryApplies(type, payload) ==
  /\ nForeign < MaxForeign
  /\ nForeign' = nForeign + 1
  /\ ChannelPost("other", type, payload)
  /\ store' = handleBroadcastMessage(store, [type |-> type, payload |-> payload])
  /\ lastOp' = [op |-> "externalPost", given |-> <<type, payload>>]
  /\ UNCHANGED <<midiAttached, projState, timers, mirror, lastMutId, inOrder,
                 nMut, nOpen, players, curveVars, midiVars, otherVars>>

\* another same-origin context posts on the 'youroke-sync' channel
\* (createBroadcastChannel hands out the raw channel)
ExternalPost(type, payload) ==
  /\ nForeign < MaxForeign
  /\ nForeign' = nForeign + 1
  /\ ChannelPost("other", type, payload)
  /\ lastOp' = [op |-> "externalPost", given |-> <<type, payload>>]
  /\ UNCHANGED <<store, midiAttached, projState, timers, mirror, lastMutId, inOrder,
                 nMut, nOpen, players, curveVars, midiVars, otherVars>>

\* applyStateUpdate(updates): useDJStore.setState(updates)
ApplyStateUpdate(updates) == Mutate("applyStateUpdate", updates, updates)

\* ------------------------------------------------------------------------
\* Specifications
\* ------------------------------------------------------------------------
InitSync == CurveIdle /\ MidiIdle /\ SyncInit /\ OtherIdle

\* arguments of the store actions: in range, at the ends, out of range
CrossfaderInputs == { R(0 - 1, 2), Zero, R(1, 4), Half, One, R(3, 2) }
DeckUpdates ==
  { [playing |-> TRUE],
    [videoId |-> "v1", title |-> "t1", artist |-> "c1"],
    [currentTime |-> One, duration |-> Two],
    [gain |-> Two] }
EQUpdates == { [high |-> Half] }
GainInputs == { R(0 - 1, 2), Two }
VolumeInputs == { R(0 - 1, 2), Half, Two }
SeekTimes == { One }
StoreMidiEvents ==
  { <<176, 51, 0>>, <<177, 51, 64>>, <<176, 51, 127>>, <<144, 11, 100>>,
    <<145, 11, 100>>, <<144, 12, 100>>, <<144, 11, 0>>, <<176, 50, 127>> }

\* the primary alone: every store action, from the UI and from MIDI
NextStore ==
  \/ \E value \in CrossfaderInputs : SetCrossfader(value)
  \/ \E curve \in CurveModes : SetCurve(curve)
  \/ \E d \in Decks, updates \in DeckUpdates : UpdateDeck(d, updates)
  \/ \E d \in Decks : ToggleDeckPlay(d)
  \/ \E d \in Decks, playing \in BOOLEAN : SetDeckPlaying(d, playing)
  \/ StartAudioEngine
  \/ \E d \in Decks, eq \in EQUpdates : SetDeckEQ(d, eq)
  \/ \E d \in Decks, gain \in GainInputs : SetDeckGain(d, gain)
  \/ \E eq \in EQUpdates : SetMasterEQ(eq)
  \/ \E volume \in VolumeInputs : SetMasterVolume(volume)
  \/ \E d \in Decks, time \in SeekTimes : SeekDeck(d, time)
  \/ \E d \in Decks : ClearSeek(d)
  \/ MidiAccessGranted
  \/ \E data \in StoreMidiEvents : MidiMessage(data)

SpecStore == InitSync /\ [][NextStore]_vars

\* the primary with a projector window: a few store mutations, the channel
\* and the projector
SyncCrossfaderInputs == { R(3, 2) }
SyncMidiEvents == { <<176, 51, 0>>, <<144, 12, 100>> }
TimeUpdate == [currentTime |-> One, duration |-> Two]

NextPrimary ==
  \/ \E value \in SyncCrossfaderInputs : SetCrossfader(value)
  \/ \E d \in Decks : ToggleDeckPlay(d)
  \/ UpdateDeck("deckA", TimeUpdate)
  \/ MidiAccessGranted
  \/ \E data \in SyncMidiEvents : MidiMessage(data)
  \/ OpenProjector
  \/ OpenTimerFires

NextProjector ==
  \/ ProjectorMount
  \/ ProjectorClose
  \/ \E m \in inbox : Deliver(m)

Next == NextPrimary \/ NextProjector

Spec == InitSync /\ [][Next]_vars

\* the same system with what the platform guarantees: an armed timer fires,
\* an opened window loads and mounts ProjectorView, a queued message event
\* is dispatched; nothing obliges the user to act on the primary or to close
\* the projector
SpecLive ==
  /\ InitSync
  /\ [][Next]_vars
  /\ WF_vars(OpenTimerFires)
  /\ WF_vars(ProjectorMount)
  /\ WF_vars(\E m \in inbox : Deliver(m))

\* a projector that stays open while other contexts post on the channel and
\* applyStateUpdate is called on the store (the primary's own messages come
\* from its store subscription)
ForeignMessages ==
  { <<"STATE_UPDATE", [deckA |-> [playing |-> TRUE]]>>,
    <<"STATE_UPDATE", [crossfaderValue |-> R(3, 2)]>>,
    <<"FULL_STATE", [crossfaderValue |-> R(0 - 1, 2), crossfaderCurve |-> "cut"]>> }
StateUpdates == { [crossfaderValue |-> R(3, 2)] }

NextOpen ==
  \/ \E value \in SyncCrossfaderInputs : SetCrossfader(value)
  \/ OpenProjector
  \/ OpenTimerFires
  \/ ProjectorMount
  \/ \E m \in inbox : Deliver(m)
  \/ \E fm \in ForeignMessages : ExternalPost(fm[1], fm[2])
  \/ \E updates \in StateUpdates : ApplyStateUpdate(updates)

SpecOpen == InitSync /\ [][NextOpen]_vars

\* ------------------------------------------------------------------------
\* hooks/useMidiController.ts: access request, device discovery, hot-plug
\* ------------------------------------------------------------------------
\* devices attached or detached per behaviour
MaxHotplug == 2
\* devices present when the hook mounts
MaxInitialInputs == 3

\* the MIDI input devices of the model
Devices == 1..4
\* input.name as a sequence of characters (<<>>: the name is null or empty)
DeviceName(dev) ==
  CASE dev = 1 -> <<"D", "D", "J", "-", "2", "0", "0">>
    [] dev = 2 -> <<"K", "e", "y", "s">>
    [] dev = 3 -> <<>>
    [] dev = 4 -> <<"x", " ", "d", "d", "j", "-", "2", "0", "0">>

\* DDJ200.DEVICE_NAME_PATTERN = /DDJ-200/i
PatternChars == <<"D", "D", "J", "-", "2", "0", "0">>
\* case folding of the i flag, for the letters of the pattern
UpperCase(c) == CASE c = "d" -> "D" [] c = "j" -> "J" [] OTHER -> c
\* DDJ200.DEVICE_NAME_PATTERN.test(name)
DEVICE_NAME_PATTERN_test(name) ==
  \E i \in 1..Len(name) :
    /\ i + Len(PatternChars) - 1 <= Len(name)
    /\ \A k \in 1..Len(PatternChars) : UpperCase(name[i + k - 1]) = PatternChars[k]

\* the name reported for an input without a name
UnknownDevice == <<"Unknown MIDI Device">>

\* the forEach of setupMidiInputs from input i on; name is the argument of
\* the last setMidiDeviceName call so far
RECURSIVE setupMidiInputsFrom(_, _, _, _)
setupMidiInputsFrom(inputs, i, foundDevice, name) ==
  IF i > Len(inputs) THEN [foundDevice |-> foundDevice, name |-> name]
  ELSE
    LET inputName == DeviceName(inputs[i])
    IN  IF inputName # <<>> /\ DEVICE_NAME_PATTERN_test(inputName)
        THEN setupMidiInputsFrom(inputs, i + 1, TRUE, inputName)
        ELSE IF ~foundDevice
        THEN setupMidiInputsFrom(inputs, i + 1, TRUE,
                                 IF inputName # <<>> THEN inputName ELSE UnknownDevice)
        ELSE setupMidiInputsFrom(inputs, i + 1, foundDevice, name)

\* a plausible slip: the first enumerated input is reported, matching or not
setupMidiInputs_FirstWins(inputs) ==
  [isMidiConnected |-> Len(inputs) > 0,
   midiDeviceName |-> IF Len(inputs) = 0 THEN Null
                      ELSE IF DeviceName(inputs[1]) # <<>> THEN DeviceName(inputs[1])
                      ELSE UnknownDevice,
   handlers |-> { inputs[i] : i \in 1..Len(inputs) }]

\* setupMidiInputs(midiAccess): the state it sets and the inputs it gives
\* handleMidiMessage to
setupMidiInputs(inputs) ==
  LET r == setupMidiInputsFrom(inputs, 1, FALSE, Null)
  IN  [isMidiConnected |-> r.foundDevice,
       midiDeviceName |-> IF r.foundDevice THEN r.name ELSE Null,
       handlers |-> { inputs[i] : i \in 1..Len(inputs) }]

\* App's effect on [isMidiConnected]: setMidiConnected(isMidiConnected)
\* runs when a handler of the hook changed the flag
HookEffects(op, arg, connected) ==
  IF connected # isMidiConnected
  THEN StoreSet(op, arg, setMidiConnected(connected))
  ELSE /\ lastOp' = [op |-> op, given |-> arg]
       /\ UNCHANGED <<store, projState, timers, mirror, inbox, nPosted, lastPosted,
                      lastMutId, inOrder, nMut, nOpen, players, nForeign, curveVars, midiVars, serverVars>>

\* setupMidiInputs(midiAccess) run by a handler of the hook
RunSetup(op, arg) ==
  LET r == setupMidiInputs(midiInputs)
  IN  /\ isMidiConnected' = r.isMidiConnected
      /\ midiDeviceName' = r.midiDeviceName
      /\ inputHandlers' = inputHandlers \cup r.handlers
      /\ midiAttached' = (inputHandlers' # {})
      /\ HookEffects(op, arg, r.isMidiConnected)

\* the mount effect: initMidi up to its await
InitMidiEffect ==
  /\ midiRequest = "unrequested"
  /\ hookMounted
  /\ IF ~platformMidi
     THEN isMidiSupported' = FALSE /\ midiRequest' = "unsupported"
     ELSE midiRequest' = "pending" /\ UNCHANGED isMidiSupported
  /\ lastOp' = [op |-> "initMidi", given |-> Null]
  /\ UNCHANGED <<store, midiAttached, projState, timers, mirror, inbox, nPosted,
                 lastPosted, lastMutId, inOrder, nMut, nOpen, players, nForeign, curveVars,
                 midiVars, serverVars, platformMidi, isMidiConnected, midiDeviceName,
                 midiAccessRef, midiInputs, inputHandlers, stateChanges, nHotplug,
                 detachedHandlers, hookMounted>>

\* a handler of the hook that changes nothing (it returns at once, or only
\* logs)
HookNoEffect(op) ==
  /\ lastOp' = [op |-> op, given |-> Null]
  /\ UNCHANGED <<store, midiAttached, projState, timers, mirror, inbox, nPosted,
                 lastPosted, lastMutId, inOrder, nMut, nOpen, players, nForeign, curveVars,
                 midiVars, serverVars, isMidiConnected, midiDeviceName,
                 inputHandlers>>

\* navigator.requestMIDIAccess resolved: initMidi after its await (when the
\* effect was cleaned up meanwhile: if (!mounted) return)
MidiAccessResolved ==
  /\ midiRequest = "pending"
  /\ midiRequest' = "granted"
  /\ IF hookMounted
     THEN midiAccessRef' = TRUE /\ RunSetup("midiAccessResolved", Null)
     ELSE UNCHANGED midiAccessRef /\ HookNoEffect("midiAccessResolved")
  /\ UNCHANGED <<platformMidi, isMidiSupported, midiInputs, stateChanges, nHotplug,
                 detachedHandlers, hookMounted>>

\* navigator.requestMIDIAccess rejected: the catch block of initMidi
\* (if (mounted) setIsMidiConnected(false))
MidiAccessRejected ==
  /\ midiRequest = "pending"
  /\ midiRequest' = "rejected"
  /\ IF hookMounted
     THEN /\ isMidiConnected' = FALSE
          /\ HookEffects("midiAccessRejected", Null, FALSE)
          /\ UNCHANGED <<midiAttached, midiDeviceName, inputHandlers>>
     ELSE HookNoEffect("midiAccessRejected")
  /\ UNCHANGED <<platformMidi, isMidiSupported, midiAccessRef, midiInputs,
                 stateChanges, nHotplug, detachedHandlers, hookMounted>>

\* a device is plugged in and appears at some place of the enumeration; the
\* platform dispatches statechange if midiAccess.onstatechange is set. For a
\* device that was plugged in before, the platform either reuses its port
\* object, with the onmidimessage it had, or presents a new one
DeviceAttach(dev, pos) ==
  /\ nHotplug < MaxHotplug
  /\ platformMidi
  /\ \A i \in 1..Len(midiInputs) : midiInputs[i] # dev
  /\ pos \in 1..(Len(midiInputs) + 1)
  /\ midiInputs' = SubSeq(midiInputs, 1, pos - 1) \o <<dev>>
                      \o SubSeq(midiInputs, pos, Len(midiInputs))
  /\ \E reused \in BOOLEAN :
       inputHandlers' = IF reused /\ dev \in detachedHandlers
                        THEN inputHandlers \cup {dev} ELSE inputHandlers
  /\ detachedHandlers' = detachedHandlers \ {dev}
  /\ midiAttached' = (inputHandlers' # {})
  /\ stateChanges' = IF midiAccessRef /\ hookMounted
                     THEN stateChanges + 1 ELSE stateChanges
  /\ nHotplug' = nHotplug + 1
  /\ lastOp' = [op |-> "deviceAttach", given |-> dev]
  /\ UNCHANGED <<store, projState, timers, mirror, inbox, nPosted,
                 lastPosted, lastMutId, inOrder, nMut, nOpen, players, nForeign, curveVars,
                 midiVars, serverVars, platformMidi, midiRequest, isMidiConnected,
                 isMidiSupported, midiDeviceName, midiAccessRef, hookMounted>>

\* a device is unplugged: its port leaves midiAccess.inputs and sends
\* nothing; the port object keeps the onmidimessage it had
DeviceDetach(dev) ==
  /\ nHotplug < MaxHotplug
  /\ \E i \in 1..Len(midiInputs) : midiInputs[i] = dev
  /\ midiInputs' = SelectSeq(midiInputs, LAMBDA x : x # dev)
  /\ inputHandlers' = inputHandlers \ {dev}
  /\ detachedHandlers' = detachedHandlers \cup ({dev} \cap inputHandlers)
  /\ midiAttached' = (inputHandlers' # {})
  /\ stateChanges' = IF midiAccessRef /\ hookMounted
                     THEN stateChanges + 1 ELSE stateChanges
  /\ nHotplug' = nHotplug + 1
  /\ lastOp' = [op |-> "deviceDetach", given |-> dev]
  /\ UNCHANGED <<store, projState, timers, mirror, inbox, nPosted, lastPosted,
                 lastMutId, inOrder, nMut, nOpen, players, nForeign, curveVars, midiVars, serverVars,
                 platformMidi, midiRequest, isMidiConnected, isMidiSupported,
                 midiDeviceName, midiAccessRef, hookMounted>>

\* a plausible slip: the state change is logged and the inputs are not
\* enumerated again
HandleStateChange_NoRescan ==
  /\ stateChanges > 0
  /\ stateChanges' = stateChanges - 1
  /\ lastOp' = [op |-> "handleStateChange", given |-> Null]
  /\ UNCHANGED <<store, midiAttached, projState, timers, mirror, inbox, nPosted,
                 lastPosted, lastMutId, inOrder, nMut, nOpen, players, nForeign, curveVars,
                 midiVars, serverVars, platformMidi, midiRequest, isMidiConnected,
                 isMidiSupported, midiDeviceName, midiAccessRef, midiInputs,
                 inputHandlers, nHotplug, detachedHandlers, hookMounted>>

\* midiAccess.onstatechange: handleStateChange
HandleStateChange ==
  /\ stateChanges > 0
  /\ stateChanges' = stateChanges - 1
  /\ IF midiAccessRef
     THEN RunSetup("handleStateChange", Null)
     ELSE /\ lastOp' = [op |-> "handleStateChange", given |-> Null]
          /\ UNCHANGED <<store, midiAttached, projState, timers, mirror, inbox,
                         nPosted, lastPosted, lastMutId, inOrder, nMut, nOpen, players,
                         nForeign, curveVars, midiVars, serverVars, isMidiConnected,
                         midiDeviceName, inputHandlers>>
  /\ UNCHANGED <<platformMidi, midiRequest, isMidiSupported, midiAccessRef,
                 midiInputs, nHotplug, detachedHandlers, hookMounted>>

\* the cleanup of the mount effect: mounted = false and, if access was
\* granted, onmidimessage = null on every input of midiAccess.inputs and
\* onstatechange = null (statechange events still queued find no handler)
HookUnmount ==
  /\ hookMounted
  /\ hookMounted' = FALSE
  /\ inputHandlers' = IF midiAccessRef THEN {} ELSE inputHandlers
  /\ midiAttached' = (inputHandlers' # {})
  /\ stateChanges' = IF midiAccessRef THEN 0 ELSE stateChanges
  /\ lastOp' = [op |-> "hookUnmount", given |-> Null]
  /\ UNCHANGED <<store, projState, timers, mirror, inbox, nPosted,
                 lastPosted, lastMutId, inOrder, nMut, nOpen, players, nForeign, curveVars,
                 midiVars, serverVars, platformMidi, midiRequest, isMidiConnected,
                 isMidiSupported, midiDeviceName, midiAccessRef, midiInputs,
                 nHotplug, detachedHandlers>>

\* the object useMidiController returns (without requestMidiAccess)
useMidiControllerReturn ==
  [isMidiConnected |-> isMidiConnected,
   isMidiSupported |-> isMidiSupported,
   midiDeviceName |-> midiDeviceName]

\* the orders in which the platform can enumerate the devices present at
\* mount
InputOrders ==
  { o \in UNION { [1..n -> Devices] : n \in 0..MaxInitialInputs } :
      \A i, j \in DOMAIN o : i # j => o[i] # o[j] }

InitHook ==
  /\ CurveIdle
  /\ MidiIdle
  /\ SyncInit
  /\ platformMidi \in BOOLEAN
  /\ midiInputs \in InputOrders
  /\ midiRequest = "unrequested"
  /\ isMidiConnected = FALSE
  /\ isMidiSupported = TRUE
  /\ midiDeviceName = Null
  /\ midiAccessRef = FALSE
  /\ inputHandlers = {}
  /\ stateChanges = 0
  /\ nHotplug = 0
  /\ detachedHandlers = {}
  /\ hookMounted = TRUE
  /\ ServerIdle

\* the hook inside App: access request, hot-plug, MIDI events on the
\* attached inputs, and a store action from the UI
NextHook ==
  \/ InitMidiEffect
  \/ MidiAccessResolved
  \/ MidiAccessRejected
  \/ \E dev \in Devices, pos \in 1..(MaxInitialInputs + MaxHotplug + 1) : DeviceAttach(dev, pos)
  \/ \E dev \in Devices : DeviceDetach(dev)
  \/ HandleStateChange
  \/ \E data \in SyncMidiEvents : MidiMessage(data)
  \/ \E value \in SyncCrossfaderInputs : SetCrossfader(value)

SpecHook == InitHook /\ [][NextHook]_vars

\* the hook in a component that can be unmounted
NextHookLife ==
  \/ InitMidiEffect
  \/ MidiAccessResolved
  \/ MidiAccessRejected
  \/ \E dev \in Devices, pos \in 1..(MaxInitialInputs + MaxHotplug + 1) : DeviceAttach(dev, pos)
  \/ \E dev \in Devices : DeviceDetach(dev)
  \/ HandleStateChange
  \/ HookUnmount
  \/ \E data \in SyncMidiEvents : MidiMessage(data)

SpecHookLife == InitHook /\ [][NextHookLife]_vars

\* ------------------------------------------------------------------------
\* server/youtube-api.ts: detectBPM
\* ------------------------------------------------------------------------
\* n/0 stands for the non-finite numbers a division by zero gives:
\* <<1, 0>> is Infinity, <<0 - 1, 0>> is -Infinity and <<0, 0>> is NaN
IsFinite(a) == a[2] # 0
\* a > b on numbers of which b is finite: false for NaN and -Infinity
JsGreater(a, b) == IF IsFinite(a) THEN RLt(b, a) ELSE a[1] > 0
\* Math.floor and Math.round on a finite number
MathFloor(a) == a[1] \div a[2]
MathRound(a) == MathFloor(RAdd(a, Half))
\* Math.abs on a finite number
MathAbs(a) == <<Abs(a[1]), a[2]>>

\* the sum s[a] + ... + s[b] a loop accumulates (exact addition is
\* associative, so the sum is split in halves)
RECURSIVE SumRange(_, _, _)
SumRange(s, a, b) ==
  IF a > b THEN Zero
  ELSE IF a = b THEN s[a]
  ELSE LET mid == (a + b) \div 2
       IN  RAdd(SumRange(s, a, mid), SumRange(s, mid + 1, b))

\* the energy envelope: the mean of waveform[j] for j from
\* max(0, i - windowSize) to min(length, i + windowSize) - 1 (indices from 0)
bpmEnvelope(waveform, windowSize) ==
  LET n == Len(waveform)
      lo(i) == IF i - windowSize < 0 THEN 0 ELSE i - windowSize
      hi(i) == IF i + windowSize > n THEN n ELSE i + windowSize
  IN  [i \in 1..n |->
         RDiv(SumRange(waveform, lo(i - 1) + 1, hi(i - 1)),
              R(hi(i - 1) - lo(i - 1), 1))] \o <<>>

\* the onsets: Math.max(0, envelope[i] - envelope[i - 1]) for i from 1
bpmOnsets(envelope) ==
  [i \in 1..(Len(envelope) - 1) |->
     MathMax(Zero, RSub(envelope[i + 1], envelope[i]))] \o <<>>

\* the weighted correlation the loop body computes for one lag
bpmCorrelation(onsets, lag, samplesPerSecond) ==
  LET count == Len(onsets) - lag
      products == [i \in 1..count |-> RMul(onsets[i], onsets[i + lag])] \o <<>>
      correlation == RDiv(SumRange(products, 1, count), R(count, 1))
      \* (60 * samplesPerSecond) / lag is Infinity for lag 0, and then so is
      \* the distance from 125; tempoWeight is -Infinity and the product is
      \* -Infinity, or NaN when the correlation is 0
      bpmAtLag == RDiv(RMul(R(60, 1), samplesPerSecond), R(lag, 1))
      tempoWeight == RSub(One, RDiv(MathAbs(RSub(bpmAtLag, R(125, 1))), R(200, 1)))
  IN  IF lag = 0
      THEN (IF correlation = Zero THEN <<0, 0>> ELSE <<0 - 1, 0>>)
      ELSE RMul(correlation, RAdd(One, RMul(tempoWeight, R(3, 10))))

\* a plausible slip: a lag whose correlation equals the best so far is taken
RECURSIVE bpmBestLag_NonStrict(_, _, _, _, _, _)
bpmBestLag_NonStrict(onsets, lag, maxLag, samplesPerSecond, bestLag, bestCorrelation) ==
  IF ~(lag <= maxLag /\ 2 * lag < Len(onsets)) THEN bestLag
  ELSE
    LET correlation == bpmCorrelation(onsets, lag, samplesPerSecond)
    IN  IF correlation = bestCorrelation \/ JsGreater(correlation, bestCorrelation)
        THEN bpmBestLag_NonStrict(onsets, lag + 1, maxLag, samplesPerSecond, lag, correlation)
        ELSE bpmBestLag_NonStrict(onsets, lag + 1, maxLag, samplesPerSecond, bestLag,
                                  bestCorrelation)

\* the autocorrelation loop from one lag on; the result is bestLag
RECURSIVE bpmBestLag(_, _, _, _, _, _)
bpmBestLag(onsets, lag, maxLag, samplesPerSecond, bestLag, bestCorrelation) ==
  IF ~(lag <= maxLag /\ 2 * lag < Len(onsets)) THEN bestLag
  ELSE
    LET correlation == bpmCorrelation(onsets, lag, samplesPerSecond)
    IN  IF Len(onsets) - lag > 0 /\ JsGreater(correlation, bestCorrelation)
        THEN bpmBestLag(onsets, lag + 1, maxLag, samplesPerSecond, lag, correlation)
        ELSE bpmBestLag(onsets, lag + 1, maxLag, samplesPerSecond, bestLag, bestCorrelation)

\* a plausible slip: only the duration is checked before analysing
detectBPM_NoLengthGuard(waveform, durationSeconds) ==
  IF RLt(durationSeconds, R(10, 1)) THEN 0
  ELSE
    LET samplesPerSecond == RDiv(R(Len(waveform), 1), durationSeconds)
        minLag == MathFloor(RMul(R(60, 180), samplesPerSecond))
        maxLag == MathFloor(RMul(R(60, 60), samplesPerSecond))
        windowSize == LET w == MathFloor(RDiv(samplesPerSecond, R(20, 1)))
                      IN  IF w > 3 THEN w ELSE 3
        onsets == bpmOnsets(bpmEnvelope(waveform, windowSize))
        bestLag == bpmBestLag(onsets, minLag, maxLag, samplesPerSecond, 0, Zero)
    IN  IF bestLag = 0 THEN 0
        ELSE MathRound(RDiv(RMul(R(60, 1), samplesPerSecond), R(bestLag, 1)))

detectBPM(waveform, durationSeconds) ==
  IF Len(waveform) < 100 \/ RLt(durationSeconds, R(10, 1)) THEN 0
  ELSE
    LET samplesPerSecond == RDiv(R(Len(waveform), 1), durationSeconds)
        minBPM == 60
        maxBPM == 180
        minLag == MathFloor(RMul(R(60, maxBPM), samplesPerSecond))
        maxLag == MathFloor(RMul(R(60, minBPM), samplesPerSecond))
        windowSize == LET w == MathFloor(RDiv(samplesPerSecond, R(20, 1)))
                      IN  IF w > 3 THEN w ELSE 3
        envelope == bpmEnvelope(waveform, windowSize)
        onsets == bpmOnsets(envelope)
        bestLag == bpmBestLag(onsets, minLag, maxLag, samplesPerSecond, 0, Zero)
    IN  IF bestLag = 0 THEN 0
        ELSE MathRound(RDiv(RMul(R(60, 1), samplesPerSecond), R(bestLag, 1)))

\* ------------------------------------------------------------------------
\* detectBPM on its own
\* ------------------------------------------------------------------------
\* series lengths around the 100-sample threshold
BpmLengths == {99, 100, 120}
\* durations in seconds, below and above the 10-second threshold
BpmDurations ==
  { Zero, R(19, 2), R(10, 1), R(16, 1), R(20, 1), R(33, 1), R(40, 1), R(50, 1),
    R(180, 1) }
\* longest period of the pulse trains
MaxPulsePeriod == 12

\* silence with two adjacent full-scale samples at k and k + 1
PairSeries(n, k) == [i \in 1..n |-> IF i = k \/ i = k + 1 THEN One ELSE Zero]
\* a full-scale sample every p samples (silence if p > n)
PulseSeries(n, p) == [i \in 1..n |-> IF i % p = 0 THEN One ELSE Zero]

BpmSeries ==
  { PairSeries(n, k) : n \in BpmLengths, k \in {1, 50, 97} }
    \cup { PulseSeries(n, p) : n \in BpmLengths, p \in 2..MaxPulsePeriod }
    \cup { PulseSeries(n, n + 1) : n \in BpmLengths }

InitBpm ==
  /\ bpmWaveform \in BpmSeries
  /\ bpmDuration \in BpmDurations
  /\ bpmOut = NoOutput
  /\ CurveIdle
  /\ MidiIdle
  /\ SyncInit
  /\ HookIdle
  /\ WaveIdle
  /\ AnalyserIdle

\* one evaluation of detectBPM on the drawn arguments
BpmEvaluate ==
  /\ bpmOut = NoOutput
  /\ bpmOut' = <<detectBPM(bpmWaveform, bpmDuration)>>
  /\ UNCHANGED <<bpmWaveform, bpmDuration, curveVars, midiVars, syncVars, hookVars,
                 waveVars, analyserVars>>

NextBpm == BpmEvaluate

SpecBpm == InitBpm /\ [][NextBpm]_vars

\* ------------------------------------------------------------------------
\* server/youtube-api.ts: youtubeWaveformMiddleware
\* ------------------------------------------------------------------------
\* waveform requests received per behaviour
MaxWaveRequests == 3
\* bytes of one chunk reader.read() delivers
ChunkBytes == 600
\* the duration the download metadata of video "a" carries
MetadataDuration == 240

\* the id and samples query parameters of the requests ("": no id; 200 is
\* the default of samples)
WaveQueries == {<<"", 200>>, <<"a", 200>>, <<"a", 100>>, <<"b", 200>>}

\* cacheKey = `${videoId}-${samples}`
CacheKey(videoId, samples) == <<videoId, samples>>

\* the series generateWaveformData(audioBuffer, samples) returns, kept as a
\* term over the downloaded bytes
AudioSeries(bytes, samples) == [source |-> "audio", bytes |-> bytes, samples |-> samples]
\* the series generateSyntheticWaveform(samples, duration, videoId) returns,
\* kept as a term
SyntheticSeries(samples, duration, videoId) ==
  [source |-> "synthetic", samples |-> samples, duration |-> duration,
   videoId |-> videoId]
\* the value detectBPM(waveform, duration) returns, kept as a term
BpmOf(waveform, duration) == [waveform |-> waveform, duration |-> duration]

\* map.set(key, value)
MapSet(map, key, value) ==
  [k \in (DOMAIN map) \cup {key} |-> IF k = key THEN value ELSE map[k]]

\* let duration = 180
DefaultDuration == 180
\* audioBuffer.length < 1000
MinAudioBytes == 1000

\* a handler step that sends no response
NoResponse ==
  /\ lastResponse' = <<>>
  /\ UNCHANGED <<curveVars, midiVars, syncVars, hookVars, bpmVars, analyserVars>>

\* res.end(...): the response is sent and the handler returns; slot is the
\* request as the handler leaves it (stage: the await it last passed)
Respond(s, slot, status, body, failure) ==
  /\ lastResponse' = <<[videoId |-> slot.videoId, samples |-> slot.samples,
                         late |-> slot.late, stage |-> slot.pc, failure |-> failure,
                         statusCode |-> status, body |-> body,
                         timeoutArmed |-> slot.timeoutArmed,
                         intervalArmed |-> slot.intervalArmed]>>
  /\ waveSlots' = [waveSlots EXCEPT ![s] = IdleSlot]
  /\ UNCHANGED <<curveVars, midiVars, syncVars, hookVars, bpmVars, analyserVars>>

\* a plausible slip: the download catch answers with an error instead of the
\* synthetic series
FinishRequest_ErrorOnFailure(s, slot, waveform, isSynthetic, failure) ==
  LET key == CacheKey(slot.videoId, slot.samples)
      bpm == BpmOf(waveform, slot.duration)
  IN  IF isSynthetic
      THEN /\ UNCHANGED <<waveformCache, firstAnalysed>>
           /\ Respond(s, slot, 500, [error |-> failure], failure)
      ELSE /\ waveformCache' = MapSet(waveformCache, key, waveform)
           /\ firstAnalysed' = IF key \notin DOMAIN firstAnalysed
                               THEN MapSet(firstAnalysed, key, waveform)
                               ELSE firstAnalysed
           /\ Respond(s, slot, 200,
                      [videoId |-> slot.videoId, waveform |-> waveform,
                       duration |-> slot.duration, bpm |-> bpm, cached |-> FALSE,
                       synthetic |-> isSynthetic],
                      failure)

\* the handler after the inner try/catch: detectBPM, waveformCache.set and
\* the 200 response
FinishRequest(s, slot, waveform, isSynthetic, failure) ==
  LET key == CacheKey(slot.videoId, slot.samples)
      bpm == BpmOf(waveform, slot.duration)
  IN  /\ waveformCache' = MapSet(waveformCache, key, waveform)
      /\ firstAnalysed' = IF ~isSynthetic /\ key \notin DOMAIN firstAnalysed
                          THEN MapSet(firstAnalysed, key, waveform)
                          ELSE firstAnalysed
      /\ Respond(s, slot, 200,
                 [videoId |-> slot.videoId, waveform |-> waveform,
                  duration |-> slot.duration, bpm |-> bpm, cached |-> FALSE,
                  synthetic |-> isSynthetic],
                 failure)

\* the inner catch block: the synthetic waveform for the duration known so
\* far
Fallback(s, slot, failure) ==
  FinishRequest(s, slot, SyntheticSeries(slot.samples, slot.duration, slot.videoId),
                TRUE, failure)

\* what the catch block receives when an await rejects: the abort, if one
\* was raised, else the failure of the await itself
RejectionCause(slot, own) == IF slot.aborted = "no" THEN own ELSE slot.aborted

\* the handler from its entry to its first await: the 400 answer, the cache
\* hit, or the call of yt.ytmp3
WaveformRequest(s, videoId, samples) ==
  LET key == CacheKey(videoId, samples)
      slot == [IdleSlot EXCEPT !.videoId = videoId, !.samples = samples,
                               !.duration = DefaultDuration,
                               !.late = key \in DOMAIN firstAnalysed]
  IN  /\ nWaveRequests < MaxWaveRequests
      /\ waveSlots[s].pc = "idle"
      /\ nWaveRequests' = nWaveRequests + 1
      /\ UNCHANGED <<waveformCache, firstAnalysed>>
      /\ IF videoId = ""
         THEN Respond(s, slot, 400, [error |-> "Missing query parameter \"id\""],
                      "none")
         ELSE IF key \in DOMAIN waveformCache
         THEN Respond(s, slot, 200,
                      [videoId |-> videoId, waveform |-> waveformCache[key],
                       cached |-> TRUE, synthetic |-> FALSE],
                      "none")
         ELSE /\ waveSlots' = [waveSlots EXCEPT ![s] = [slot EXCEPT !.pc = "resolving"]]
              /\ NoResponse

\* result.metadata.duration, where the metadata carries one
MetadataOf(videoId) == IF videoId = "a" THEN <<MetadataDuration>> ELSE <<>>

\* await yt.ytmp3(videoUrl, 128) settles: with a download URL (and the
\* duration, if the metadata carries one), or without one
ResolveReturns(s, outcome) ==
  LET slot == waveSlots[s]
      metadata == MetadataOf(slot.videoId)
  IN  /\ slot.pc = "resolving"
      /\ IF outcome = "url"
         THEN /\ waveSlots' = [waveSlots EXCEPT ![s] =
                                 [slot EXCEPT !.pc = "fetching",
                                              !.duration = IF metadata # <<>>
                                                           THEN metadata[1]
                                                           ELSE slot.duration,
                                              !.timeoutArmed = TRUE]]
              /\ NoResponse
              /\ UNCHANGED <<waveformCache, nWaveRequests, firstAnalysed>>
         ELSE /\ Fallback(s, slot, "resolve")
              /\ UNCHANGED nWaveRequests

\* await fetch(result.download.url, {signal}) settles
FetchReturns(s, outcome) ==
  LET slot == waveSlots[s]
      cleared == [slot EXCEPT !.timeoutArmed = FALSE]
  IN  /\ slot.pc = "fetching"
      /\ outcome # "rejects" => slot.aborted = "no"
      /\ CASE outcome = "ok" ->
                /\ waveSlots' = [waveSlots EXCEPT ![s] =
                                   [slot EXCEPT !.pc = "reading",
                                                !.intervalArmed = TRUE]]
                /\ NoResponse
                /\ UNCHANGED <<waveformCache, nWaveRequests, firstAnalysed>>
           [] outcome = "notOk" ->
                /\ Fallback(s, cleared, "status")
                /\ UNCHANGED nWaveRequests
           [] outcome = "noBody" ->
                /\ Fallback(s, cleared, "body")
                /\ UNCHANGED nWaveRequests
           [] OTHER ->
                /\ Fallback(s, slot, RejectionCause(slot, "fetch"))
                /\ UNCHANGED nWaveRequests

\* await reader.read() delivers a chunk (of a body that ends once it has
\* MinAudioBytes)
ReadChunk(s) ==
  LET slot == waveSlots[s]
  IN  /\ slot.pc = "reading"
      /\ slot.aborted = "no"
      /\ slot.received < MinAudioBytes
      /\ waveSlots' = [waveSlots EXCEPT ![s] =
                         [slot EXCEPT !.received = slot.received + ChunkBytes]]
      /\ NoResponse
      /\ UNCHANGED <<waveformCache, nWaveRequests, firstAnalysed>>

\* the finally block of the read loop
ClearTimers(slot) == [slot EXCEPT !.timeoutArmed = FALSE, !.intervalArmed = FALSE]

\* await reader.read() reports done: the size check, then the analysis
ReadDone(s) ==
  LET slot == ClearTimers(waveSlots[s])
  IN  /\ slot.pc = "reading"
      /\ slot.aborted = "no"
      /\ UNCHANGED nWaveRequests
      /\ IF slot.received < MinAudioBytes
         THEN Fallback(s, slot, "tooSmall")
         ELSE FinishRequest(s, slot, AudioSeries(slot.received, slot.samples), FALSE,
                            "none")

\* await reader.read() rejects: a network error, or the abort
ReadError(s) ==
  LET slot == ClearTimers(waveSlots[s])
  IN  /\ slot.pc = "reading"
      /\ UNCHANGED nWaveRequests
      /\ Fallback(s, slot, RejectionCause(slot, "read"))

\* a plausible slip: the timeout only logs
TimeoutFires_LogOnly(s) ==
  LET slot == waveSlots[s]
  IN  /\ slot.timeoutArmed
      /\ waveSlots' = [waveSlots EXCEPT ![s] = [slot EXCEPT !.timeoutArmed = FALSE]]
      /\ NoResponse
      /\ UNCHANGED <<waveformCache, nWaveRequests, firstAnalysed>>

\* the 30 s timer fires: controller.abort()
TimeoutFires(s) ==
  LET slot == waveSlots[s]
  IN  /\ slot.timeoutArmed
      /\ waveSlots' = [waveSlots EXCEPT ![s] =
                         [slot EXCEPT !.timeoutArmed = FALSE,
                                      !.aborted = RejectionCause(slot, "timeout")]]
      /\ NoResponse
      /\ UNCHANGED <<waveformCache, nWaveRequests, firstAnalysed>>

\* the 2 s interval fires
IntervalTick(s) ==
  LET slot == waveSlots[s]
      stuck == slot.received = slot.lastReceivedBytes /\ slot.received > 0
  IN  /\ slot.intervalArmed
      /\ waveSlots' = [waveSlots EXCEPT ![s] =
                         [slot EXCEPT !.lastReceivedBytes = slot.received,
                                      !.ticked = TRUE,
                                      !.idleTick = slot.ticked
                                        /\ slot.received = slot.lastReceivedBytes,
                                      !.aborted = IF stuck
                                                  THEN RejectionCause(slot, "stall")
                                                  ELSE slot.aborted]]
      /\ NoResponse
      /\ UNCHANGED <<waveformCache, nWaveRequests, firstAnalysed>>

ResolveOutcomes == {"url", "fails"}
FetchOutcomes == {"ok", "notOk", "noBody", "rejects"}

InitWave ==
  /\ WaveIdle
  /\ BpmIdle
  /\ AnalyserIdle
  /\ CurveIdle
  /\ MidiIdle
  /\ SyncInit
  /\ HookIdle

NextWave ==
  \/ \E s \in Slots, q \in WaveQueries : WaveformRequest(s, q[1], q[2])
  \/ \E s \in Slots, outcome \in ResolveOutcomes : ResolveReturns(s, outcome)
  \/ \E s \in Slots, outcome \in FetchOutcomes : FetchReturns(s, outcome)
  \/ \E s \in Slots : ReadChunk(s)
  \/ \E s \in Slots : ReadDone(s)
  \/ \E s \in Slots : ReadError(s)
  \/ \E s \in Slots : TimeoutFires(s)
  \/ \E s \in Slots : IntervalTick(s)

SpecWave == InitWave /\ [][NextWave]_vars

\* controller.abort() has been called: the pending fetch or reader.read()
\* rejects with the abort
AbortRejects(s) ==
  /\ waveSlots[s].aborted # "no"
  /\ FetchReturns(s, "rejects") \/ ReadError(s)

\* the endpoint with what the platform guarantees: an armed timeout fires,
\* and an await on an aborted signal rejects; nothing obliges the remote
\* server to answer, to send a byte or to end the body
\* (the requests all ask for video "a" with the default sample count, so
\* that every one of them meets the cache or starts a download)
LiveQueries == {<<"a", 200>>}

NextWaveLive ==
  \/ \E s \in Slots, q \in LiveQueries : WaveformRequest(s, q[1], q[2])
  \/ \E s \in Slots, outcome \in ResolveOutcomes : ResolveReturns(s, outcome)
  \/ \E s \in Slots, outcome \in FetchOutcomes : FetchReturns(s, outcome)
  \/ \E s \in Slots : ReadChunk(s)
  \/ \E s \in Slots : ReadDone(s)
  \/ \E s \in Slots : ReadError(s)
  \/ \E s \in Slots : TimeoutFires(s)
  \/ \E s \in Slots : IntervalTick(s)

SpecWaveLive ==
  /\ InitWave
  /\ [][NextWaveLive]_vars
  /\ \A s \in Slots : WF_vars(TimeoutFires(s)) /\ WF_vars(AbortRejects(s))

\* ------------------------------------------------------------------------
\* server/youtube-api.ts: generateWaveformData
\* ------------------------------------------------------------------------
\* const threshold = 0.4, const thresholdOutput = 0.15
ScalingThreshold == R(2, 5)
ScalingThresholdOutput == R(3, 20)

applyDynamicScaling(value) ==
  IF RLt(value, ScalingThreshold)
  THEN RMul(RDiv(value, ScalingThreshold), ScalingThresholdOutput)
  ELSE LET normalizedAboveThreshold ==
             RDiv(RSub(value, ScalingThreshold), RSub(One, ScalingThreshold))
       IN  RAdd(ScalingThresholdOutput,
                RMul(normalizedAboveThreshold, RSub(One, ScalingThresholdOutput)))

\* Math.min(100, Math.floor(audioBuffer.length * 0.01))
HeaderSkip == 100
headerOffset(audioBuffer) ==
  LET hundredth == Len(audioBuffer) \div 100
  IN  IF hundredth < HeaderSkip THEN hundredth ELSE HeaderSkip

\* the centre of an unsigned byte, and the divisor of the average deviation
ByteCentre == 128
DeviationScale == 80
\* max < 0.02, range > 0.01
QuietThreshold == R(1, 50)
RangeThreshold == R(1, 100)

\* the inner loop: sum of Math.abs(byte - 128) over the bytes with index
\* start .. end - 1 (indices from 0)
RECURSIVE deviationSum(_, _, _)
deviationSum(audioBuffer, start, end) ==
  IF start >= end THEN 0
  ELSE IF start + 1 = end THEN Abs(audioBuffer[start + 1] - ByteCentre)
  ELSE LET mid == (start + end) \div 2
       IN  deviationSum(audioBuffer, start, mid) + deviationSum(audioBuffer, mid, end)

\* one iteration of the outer loop: the value pushed for sample i
windowEnergy(audioBuffer, sampleCount, i) ==
  LET offset == headerOffset(audioBuffer)
      dataLength == Len(audioBuffer) - offset
      adjustedBytesPerSample == dataLength \div sampleCount
      start == offset + i * adjustedBytesPerSample
      end == IF start + adjustedBytesPerSample < Len(audioBuffer)
             THEN start + adjustedBytesPerSample
             ELSE Len(audioBuffer)
      count == IF end > start THEN end - start ELSE 0
      avg == IF count > 0 THEN R(deviationSum(audioBuffer, start, end), count) ELSE Zero
  IN  MathMin(One, RDiv(avg, R(DeviationScale, 1)))

\* a plausible slip: a window that holds no byte pushes nothing
rawWaveform_SkipEmptyWindows(audioBuffer, sampleCount) ==
  LET offset == headerOffset(audioBuffer)
      filled == IF sampleCount > 0 /\ (Len(audioBuffer) - offset) \div sampleCount > 0
                THEN sampleCount ELSE 0
  IN  [i \in 1..filled |-> windowEnergy(audioBuffer, sampleCount, i - 1)] \o <<>>

\* the series after the outer loop
rawWaveform(audioBuffer, sampleCount) ==
  [i \in 1..sampleCount |-> windowEnergy(audioBuffer, sampleCount, i - 1)] \o <<>>

\* Math.max(...waveform) and Math.min(...waveform): -Infinity and Infinity
\* for the empty series
RECURSIVE SpreadMax(_, _)
SpreadMax(waveform, n) ==
  IF n = 0 THEN <<0 - 1, 0>>
  ELSE IF n = 1 THEN waveform[1]
  ELSE MathMax(SpreadMax(waveform, n - 1), waveform[n])
RECURSIVE SpreadMin(_, _)
SpreadMin(waveform, n) ==
  IF n = 0 THEN <<1, 0>>
  ELSE IF n = 1 THEN waveform[1]
  ELSE MathMin(SpreadMin(waveform, n - 1), waveform[n])

\* max < 0.02 (true for -Infinity)
TooQuiet(max) == IF IsFinite(max) THEN RLt(max, QuietThreshold) ELSE max[1] < 0

\* a plausible slip: only an exactly silent series is zeroed
generateWaveformData_ExactSilenceOnly(audioBuffer, sampleCount) ==
  LET waveform == rawWaveform(audioBuffer, sampleCount)
      max == SpreadMax(waveform, Len(waveform))
      min == SpreadMin(waveform, Len(waveform))
      range == RSub(max, min)
  IN  IF ~IsFinite(max) \/ max = Zero
      THEN [i \in 1..Len(waveform) |-> Zero] \o <<>>
      ELSE [i \in 1..Len(waveform) |->
              applyDynamicScaling(IF RLt(RangeThreshold, range)
                                  THEN RDiv(RSub(waveform[i], min), range)
                                  ELSE RDiv(waveform[i], max))] \o <<>>

generateWaveformData(audioBuffer, sampleCount) ==
  LET waveform == rawWaveform(audioBuffer, sampleCount)
      max == SpreadMax(waveform, Len(waveform))
      min == SpreadMin(waveform, Len(waveform))
  IN  IF TooQuiet(max)
      THEN [i \in 1..Len(waveform) |-> Zero] \o <<>>
      ELSE LET range == RSub(max, min)
           IN  [i \in 1..Len(waveform) |->
                  applyDynamicScaling(IF RLt(RangeThreshold, range)
                                      THEN RDiv(RSub(waveform[i], min), range)
                                      ELSE RDiv(waveform[i], max))] \o <<>>

\* ------------------------------------------------------------------------
\* generateWaveformData on its own
\* ------------------------------------------------------------------------
\* the largest sampleCount of the calls
MaxGenSamples == 6
GenSampleCounts == 0..MaxGenSamples
\* buffer lengths: empty, shorter than the sample counts, a few bytes per
\* sample, and long enough for a header offset
GenLengths == {0, 1, 3, 4, 9, 12, 250}
GenBytes == {0, 126, 127, 128, 129, 130, 208, 255}

\* buffers of one byte value, and buffers whose second half holds another
StepBuffer(n, a, b) == [j \in 1..n |-> IF 2 * j <= n THEN a ELSE b] \o <<>>
\* buffers that alternate two byte values
AlternatingBuffer(n, a, b) == [j \in 1..n |-> IF j % 2 = 1 THEN a ELSE b] \o <<>>
GenBuffers ==
  { StepBuffer(n, a, b) : n \in GenLengths, a \in GenBytes, b \in GenBytes }
    \cup { AlternatingBuffer(n, a, b) : n \in GenLengths, a \in GenBytes, b \in GenBytes }

InitGen ==
  /\ genBuffer \in GenBuffers
  /\ genSampleCount \in GenSampleCounts
  /\ genOut = NoOutput
  /\ SynIdle
  /\ BpmIdle
  /\ WaveIdle
  /\ CurveIdle
  /\ MidiIdle
  /\ SyncInit
  /\ HookIdle

\* one evaluation of generateWaveformData on the drawn arguments
GenEvaluate ==
  /\ genOut = NoOutput
  /\ genOut' = <<generateWaveformData(genBuffer, genSampleCount)>>
  /\ UNCHANGED <<genBuffer, genSampleCount, synVars, bpmVars, waveVars, curveVars,
                 midiVars, syncVars, hookVars>>

NextGen == GenEvaluate

SpecGen == InitGen /\ [][NextGen]_vars

\* ------------------------------------------------------------------------
\* server/youtube-api.ts: generateSyntheticWaveform
\* ------------------------------------------------------------------------
\* Math.sin is kept as an unknown function with values in [-1, 1]: synSin
\* holds its values at the arguments iteration synIndex of a call with
\* (synSamples, synDuration, synVideoId) passes to it.
SineSites == {"base", "wave1", "wave2", "wave3", "noise", "beat"}

\* seed = duration * 1000 + sum of videoId.charCodeAt(i) * (i + 1) * 127
RECURSIVE seedFrom(_, _, _)
seedFrom(videoId, n, seed) ==
  IF n > Len(videoId) THEN seed
  ELSE seedFrom(videoId, n + 1, seed + videoId[n] * n * 127)

\* a plausible slip: the seed is kept between calls and keeps accumulating
syntheticSeed_Accumulating(duration, videoId) ==
  seedFrom(videoId, 1, duration * 1000) + synCalls * duration * 1000 + synCalls

syntheticSeed(duration, videoId) == seedFrom(videoId, 1, duration * 1000)

\* Math.sin at the argument a site computes from i, samples and seed; the
\* sites other than "base" have the seed in their argument, and what
\* Math.sin is at the argument of another seed is another unknown value
MathSinAt(site, seed) ==
  IF site = "base" \/ seed = seedFrom(synVideoId, 1, synDuration * 1000)
  THEN synSin[site]
  ELSE RSub(Zero, synSin[site])

\* random(x), given Math.sin(x * 12.9898 + seed * 78.233)
RandomScale == R(437585453, 10000)
random(sine) ==
  LET val == RMul(sine, RandomScale)
  IN  RSub(val, R(MathFloor(val), 1))

\* one iteration of the loop: the value pushed for sample i
syntheticSample(i, samples, duration, videoId) ==
  LET seed == syntheticSeed(duration, videoId)
      t == R(i, samples)
      base == IF RLt(t, R(1, 20)) THEN RMul(t, R(7, 1))
              ELSE IF RLt(R(19, 20), t) THEN RMul(RSub(One, t), R(7, 1))
              ELSE RAdd(R(7, 20), RMul(R(3, 20), MathSinAt("base", seed)))
      wave1 == RMul(MathSinAt("wave1", seed), R(3, 25))
      wave2 == RMul(MathSinAt("wave2", seed), R(2, 25))
      wave3 == RMul(MathSinAt("wave3", seed), R(3, 50))
      noise == RMul(RSub(random(MathSinAt("noise", seed)), Half), R(1, 4))
      sum == RAdd(RAdd(RAdd(RAdd(base, wave1), wave2), wave3), noise)
      clamped == MathMax(R(2, 25), MathMin(One, MathAbs(sum)))
      beatPattern == random(MathSinAt("beat", seed))
      peaked == IF RLt(R(17, 20), beatPattern)
                THEN MathMin(One, RMul(clamped, RAdd(R(6, 5), RMul(beatPattern, Half))))
                ELSE clamped
      section == MathFloor(RMul(t, R(8, 1))) % 4
  IN  IF section = 2 \/ section = 3 THEN RMul(peaked, R(11, 10)) ELSE peaked

\* ------------------------------------------------------------------------
\* generateSyntheticWaveform on its own
\* ------------------------------------------------------------------------
\* the largest samples argument, and the calls made per behaviour
MaxSynSamples == 40
MaxSynCalls == 3
SynSampleCounts == {1, 8, MaxSynSamples}
SynDurations == {0, DefaultDuration}
\* the ids "" and "a" (char code 97)
SynVideoIds == {<<>>, <<97>>}

\* a value of Math.sin whose product with 43758.5453 is f (0 <= f < 1), so
\* that random gives f
SineWithFraction(f) == RDiv(f, RandomScale)
\* values of Math.sin at the sites: the extremes for the waves, and values
\* that put random below, at and above the beat threshold
BaseSines == {Half, One}
WaveSines == {R(0 - 1, 1), One}
NoiseSines == {Zero, SineWithFraction(R(9, 10)), R(0 - 1, 1)}
BeatSines == {Zero, SineWithFraction(R(17, 20)), SineWithFraction(R(9, 10))}
SineTables ==
  { [site \in SineSites |->
       CASE site = "base" -> b
         [] site = "wave1" -> w[1]
         [] site = "wave2" -> w[2]
         [] site = "wave3" -> w[3]
         [] site = "noise" -> n
         [] OTHER -> p] :
    b \in BaseSines, w \in WaveSines \X WaveSines \X WaveSines,
    n \in NoiseSines, p \in BeatSines }

InitSyn ==
  /\ synSamples \in SynSampleCounts
  /\ synIndex \in 0..(synSamples - 1)
  /\ synDuration \in SynDurations
  /\ synVideoId \in SynVideoIds
  /\ synSin \in SineTables
  \* random(0) and random(0 * 0.1) are the same call
  /\ synIndex = 0 => synSin["noise"] = synSin["beat"]
  /\ synOut = NoOutput
  /\ synAgain = NoOutput
  /\ synCalls = 0
  /\ GenIdle
  /\ BpmIdle
  /\ WaveIdle
  /\ CurveIdle
  /\ MidiIdle
  /\ SyncInit
  /\ HookIdle

\* the first call with the drawn arguments; waveform[synIndex] is kept
SynEvaluate ==
  /\ synOut = NoOutput
  /\ synOut' = <<syntheticSample(synIndex, synSamples, synDuration, synVideoId)>>
  /\ synCalls' = synCalls + 1
  /\ UNCHANGED <<synSamples, synDuration, synVideoId, synIndex, synSin, synAgain,
                 genVars, bpmVars, waveVars, curveVars, midiVars, syncVars, hookVars>>

\* a call with other arguments, whose result is not looked at
SynOtherCall ==
  /\ synCalls < MaxSynCalls
  /\ synCalls' = synCalls + 1
  /\ UNCHANGED <<synSamples, synDuration, synVideoId, synIndex, synSin, synOut,
                 synAgain, genVars, bpmVars, waveVars, curveVars, midiVars, syncVars,
                 hookVars>>

\* the cache gets an entry (as a completed request leaves one)
SynCacheSet ==
  /\ waveformCache = <<>>
  /\ waveformCache' =
       MapSet(waveformCache, CacheKey("a", 200), AudioSeries(MinAudioBytes, 200))
  /\ UNCHANGED <<waveSlots, nWaveRequests, lastResponse, firstAnalysed, synVars,
                 genVars, bpmVars, curveVars, midiVars, syncVars, hookVars>>

\* a later call with the same arguments; waveform[synIndex] is kept
SynEvaluateAgain ==
  /\ synOut # NoOutput
  /\ synCalls < MaxSynCalls
  /\ synAgain' = <<syntheticSample(synIndex, synSamples, synDuration, synVideoId)>>
  /\ synCalls' = synCalls + 1
  /\ UNCHANGED <<synSamples, synDuration, synVideoId, synIndex, synSin, synOut,
                 genVars, bpmVars, waveVars, curveVars, midiVars, syncVars, hookVars>>

NextSyn ==
  \/ SynEvaluate
  \/ SynOtherCall
  \/ SynCacheSet
  \/ SynEvaluateAgain

SpecSyn == InitSyn /\ [][NextSyn]_vars

\* ------------------------------------------------------------------------
\* Properties of applyCurve (checked under SpecCurve)
\* ------------------------------------------------------------------------
\* C1: for every position in [0,1] and either curve mode, the opacities
\* returned by applyCurve sum to 1 and at least one of the two volumes is 1.
C1_CenterFullEverywhere ==
  \A i \in 1..Len(curveOut) :
    InUnit(curvePos) =>
      /\ RAdd(curveOut[i].deckAOpacity, curveOut[i].deckBOpacity) = One
      /\ (curveOut[i].deckAVolume = One \/ curveOut[i].deckBVolume = One)

\* an evaluation in 'cut' mode at a position strictly between 0.5 and 1
C1_Witness ==
  /\ curveOut # NoOutput
  /\ curveMode = "cut"
  /\ RLt(Half, curvePos)
  /\ RLt(curvePos, One)

\* C2: applyCurve equals the center-full reference law on [0,1]: left half
\* A = 1, B = 2p; right half A = 2(1-p), B = 1; each opacity is the volume's
\* share of the total; and the values at 0, 0.5 and 1 are the stated ones.
C2_ReferenceLaw ==
  \A i \in 1..Len(curveOut) :
    InUnit(curvePos) =>
      LET o == curveOut[i]
          p == curvePos
          total == RAdd(o.deckAVolume, o.deckBVolume)
      IN  /\ RLe(p, Half) => o.deckAVolume = One /\ o.deckBVolume = RMul(Two, p)
          /\ RLt(Half, p) => o.deckAVolume = RMul(Two, RSub(One, p)) /\ o.deckBVolume = One
          /\ o.deckAOpacity = RDiv(o.deckAVolume, total)
          /\ o.deckBOpacity = RDiv(o.deckBVolume, total)
          /\ p = Half => o = [deckAVolume |-> One, deckBVolume |-> One,
                              deckAOpacity |-> Half, deckBOpacity |-> Half]
          /\ p = Zero => o = [deckAVolume |-> One, deckBVolume |-> Zero,
                              deckAOpacity |-> One, deckBOpacity |-> Zero]
          /\ p = One => o = [deckAVolume |-> Zero, deckBVolume |-> One,
                             deckAOpacity |-> Zero, deckBOpacity |-> One]

\* an evaluation at the exact center
C2_Witness == curveOut # NoOutput /\ curvePos = Half

\* ------------------------------------------------------------------------
\* Properties of the primary's store (checked under SpecStore)
\* ------------------------------------------------------------------------
\* C3: the primary's crossfaderValue is in [0,1] in every reachable state,
\* and each store action leaves it equal to the clamp of the value written
\* by the last setCrossfader call (from the UI or from a decoded MIDI
\* crossfader move); the other actions do not change it.
C3_CrossfaderClamped ==
  /\ [](InUnit(store.crossfaderValue))
  /\ [][nMut' # nMut =>
          LET isCC == /\ lastOp'.op = "midiMessage"
                      /\ Len(lastOp'.given) = 3
                      /\ lastOp'.given[1] \div 16 = 11
                      /\ lastOp'.given[2] = 51
              written == IF lastOp'.op = "setCrossfader" THEN <<lastOp'.given>>
                         ELSE IF isCC THEN <<R(lastOp'.given[3], 127)>>
                         ELSE <<>>
              clamp(v) == IF RLt(v, Zero) THEN Zero ELSE IF RLt(One, v) THEN One ELSE v
          IN  IF written # <<>>
              THEN store'.crossfaderValue = clamp(written[1])
              ELSE store'.crossfaderValue = store.crossfaderValue]_vars

\* setCrossfader was called with a value above 1 and the store holds 1
C3_Witness ==
  /\ lastOp.op = "setCrossfader"
  /\ RLt(One, lastOp.given)
  /\ store.crossfaderValue = One

\* ------------------------------------------------------------------------
\* Properties of the sync-apply boundary (checked under SpecOpen)
\* ------------------------------------------------------------------------
\* C4: after the receiver applies any FULL_STATE or STATE_UPDATE message its
\* mirrored crossfaderValue is in [0,1], and the store's crossfaderValue is
\* in [0,1] after applyStateUpdate.
C4_ClampedAtSyncApply ==
  /\ (lastOp.op = "deliver" /\ "crossfaderValue" \in DOMAIN mirror)
       => InUnit(mirror.crossfaderValue)
  /\ lastOp.op = "applyStateUpdate" => InUnit(store.crossfaderValue)

\* C5: applying a STATE_UPDATE changes only the top-level fields present in
\* the patch: every field absent from the patch keeps its value, and no
\* field appears that was neither in the mirror nor in the patch.
C5_UpdateFrame ==
  [][(lastOp'.op = "deliver" /\ inbox' = inbox \ {lastOp'.given} /\ inbox' # inbox
        /\ lastOp'.given.type = "STATE_UPDATE") =>
       /\ \A f \in (DOMAIN mirror) \ (DOMAIN lastOp'.given.payload) :
            f \in DOMAIN mirror' /\ mirror'[f] = mirror[f]
       /\ (DOMAIN mirror') \subseteq ((DOMAIN mirror) \cup (DOMAIN lastOp'.given.payload))]_vars

\* the patch {deckA: {playing: true}} was applied to a mirror that had
\* already taken the crossfader position 1 from the primary
C5_Witness ==
  /\ lastOp.op = "deliver"
  /\ lastOp.given.type = "STATE_UPDATE"
  /\ lastOp.given.payload = [deckA |-> [playing |-> TRUE]]
  /\ "crossfaderValue" \in DOMAIN mirror
  /\ mirror.crossfaderValue = One
  /\ mirror.deckB = DEFAULT_DECK_STATE

\* C6: applying a FULL_STATE replaces the mirror wholesale: whatever the
\* prior mirror and the snapshot, the mirror afterwards equals the snapshot.
C6_FullStateReplaces ==
  [][(lastOp'.op = "deliver" /\ inbox' = inbox \ {lastOp'.given} /\ inbox' # inbox
        /\ lastOp'.given.type = "FULL_STATE") =>
       mirror' = lastOp'.given.payload]_vars

\* a snapshot with fields missing was applied: the mirror has only its fields
C6_Witness ==
  /\ lastOp.op = "deliver"
  /\ lastOp.given.type = "FULL_STATE"
  /\ DOMAIN lastOp.given.payload = {"crossfaderValue", "crossfaderCurve"}
  /\ DOMAIN mirror = {"crossfaderValue", "crossfaderCurve"}

\* ------------------------------------------------------------------------
\* Properties of the sync protocol (checked under Spec)
\* ------------------------------------------------------------------------
\* C7: the primary publishes a FULL_STATE after opening a projector window,
\* and on every other store mutation it publishes a STATE_UPDATE.
C7_StateUpdateOnMutation ==
  [][/\ (lastOp'.op = "openTimer" /\ nPosted' # nPosted) =>
          /\ lastPosted'[1].type = "FULL_STATE"
          /\ lastPosted'[1].payload = getStoreState(store')
     /\ nMut' # nMut =>
          /\ nPosted' = nPosted + 1
          /\ lastPosted'[1].type = "STATE_UPDATE"]_vars

\* C8: once the message published for the primary's latest mutation has been
\* delivered to the subscribed projector, with no earlier-published message
\* delivered after it and no mutation since, the mirror equals the primary's
\* store snapshot.
C8_Convergence ==
  (projState = "mounted" /\ inOrder) => mirror = getStoreState(store)

\* two mutations were published to the mounted projector, everything was
\* delivered with the latest one last, and the mirror left its default
C8_Witness ==
  /\ projState = "mounted"
  /\ inOrder
  /\ nMut >= 2
  /\ inbox = {}
  /\ lastOp.op = "deliver"
  /\ lastOp.given.id = lastMutId
  /\ lastOp.given.id >= 3
  /\ mirror = getStoreState(store)
  /\ mirror # DEFAULT_DJ_STATE

\* ------------------------------------------------------------------------
\* Properties of handleMidiMessage (checked under SpecMidi)
\* ------------------------------------------------------------------------
\* C9: a Control-Change triple (status high nibble 0xB, any channel) for
\* controller 51 invokes onCrossfaderChange exactly once, with data2/127, a
\* value in [0,1], and no other callback; [0xB0,51,127] gives 1 and
\* [0xB0,51,0] gives 0.
C9_CrossfaderMove ==
  \A i \in 1..Len(midiResult) :
    (Len(midiData) = 3 /\ midiData[1] \div 16 = 11 /\ midiData[2] = 51) =>
      /\ Len(midiResult[i].calls) = 1
      /\ midiResult[i].calls[1].cb = "onCrossfaderChange"
      /\ midiResult[i].calls[1].arg = R(midiData[3], 127)
      /\ InUnit(midiResult[i].calls[1].arg)
      /\ midiData = <<176, 51, 127>> => midiResult[i].calls[1].arg = One
      /\ midiData = <<176, 51, 0>> => midiResult[i].calls[1].arg = Zero

\* a crossfader move received on MIDI channel 6 with a mid-range value
C9_Witness ==
  /\ midiResult # NoOutput
  /\ midiData = <<181, 51, 64>>
  /\ midiResult[1].calls = <<[cb |-> "onCrossfaderChange", arg |-> R(64, 127)]>>

\* C10: a Note-On triple (status high nibble 0x9) with velocity > 0 and note
\* 11 invokes exactly the deck-A play toggle on channel 0 and exactly the
\* deck-B play toggle on channel 1; note 12 maps to the cue callbacks the
\* same way; on any other channel no callback is invoked.
C10_TransportByChannel ==
  \A i \in 1..Len(midiResult) :
    (Len(midiData) = 3 /\ midiData[1] \div 16 = 9 /\ midiData[3] > 0
       /\ midiData[2] \in {11, 12}) =>
      LET ch == midiData[1] % 16
          cb == IF midiData[2] = 11
                THEN (IF ch = 0 THEN "onDeckAPlayToggle" ELSE "onDeckBPlayToggle")
                ELSE (IF ch = 0 THEN "onDeckACue" ELSE "onDeckBCue")
      IN  IF ch \in {0, 1} /\ cb \in midiSupplied
          THEN midiResult[i].calls = <<[cb |-> cb, arg |-> Null]>>
          ELSE midiResult[i].calls = <<>>

\* the play note pressed on channel 1 reached the deck-B toggle
C10_Witness ==
  /\ midiResult # NoOutput
  /\ midiData = <<145, 11, 100>>
  /\ midiResult[1].calls = <<[cb |-> "onDeckBPlayToggle", arg |-> Null]>>

\* C11: a Note-On triple (status 0x90..0x9F) with velocity 0 is never a play
\* or cue trigger: for every channel and note number it is classified
\* unmapped (logged as such) and no callback is invoked, so nothing reaches
\* the store's playing flags.
C11_ZeroVelocityUnmapped ==
  \A i \in 1..Len(midiResult) :
    (Len(midiData) = 3 /\ midiData[1] \div 16 = 9 /\ midiData[3] = 0) =>
      /\ midiResult[i].calls = <<>>
      /\ midiResult[i].log = <<"message", "unmapped">>

\* the play note released (velocity 0) on channel 1, with every callback
\* supplied
C11_Witness ==
  /\ midiResult # NoOutput
  /\ midiData = <<145, 11, 0>>
  /\ midiSupplied = MidiCallbacks
  /\ midiResult[1].calls = <<>>

\* C12: a triple that is neither a Control-Change for controller 51 nor a
\* Note-On with velocity > 0 for note 11 or 12 on channel 0 or 1 is
\* classified unmapped: the event line and the unmapped line are logged and
\* no callback is invoked (the handler has no other effect: it only reads
\* the event and calls the supplied callbacks).
C12_OthersUnmapped ==
  \A i \in 1..Len(midiResult) :
    LET mappedCC == midiData[1] \div 16 = 11 /\ midiData[2] = 51
        mappedNote == /\ midiData[1] \div 16 = 9
                      /\ midiData[3] > 0
                      /\ midiData[2] \in {11, 12}
                      /\ midiData[1] % 16 \in {0, 1}
    IN  (Len(midiData) = 3 /\ ~mappedCC /\ ~mappedNote) =>
          /\ midiResult[i].calls = <<>>
          /\ midiResult[i].log = <<"message", "unmapped">>

\* a Control-Change for the neighbouring controller 50 was received
C12_Witness ==
  /\ midiResult # NoOutput
  /\ midiData = <<176, 50, 127>>
  /\ midiResult[1] = [calls |-> <<>>, log |-> <<"message", "unmapped">>]

\* ------------------------------------------------------------------------
\* Properties of the MIDI hook's life cycle (checked under SpecHook)
\* ------------------------------------------------------------------------
\* C13: without a MIDI access capability the hook reports Unsupported
\* (isMidiSupported false); after a rejected request it reports Denied, a
\* status that differs from Unsupported and from every status a granted
\* request gives; in both cases isMidiConnected is false, no handler is
\* attached and no MIDI event reaches a callback, and setCrossfader still
\* stores the clamped value.
C13_StatusReported ==
  LET granted ==
        { LET r == setupMidiInputs(o)
          IN  [isMidiConnected |-> r.isMidiConnected,
               isMidiSupported |-> TRUE,
               midiDeviceName |-> r.midiDeviceName] : o \in InputOrders }
      failed == midiRequest \in {"unsupported", "rejected"}
  IN  /\ midiRequest = "unsupported" => ~isMidiSupported /\ ~isMidiConnected
      /\ midiRequest = "rejected" =>
            /\ ~isMidiConnected
            /\ isMidiSupported
            /\ useMidiControllerReturn \notin granted
      /\ failed => ~midiAttached /\ inputHandlers = {} /\ lastOp.op # "midiMessage"
      /\ (failed /\ lastOp.op = "setCrossfader") =>
            store.crossfaderValue = MathMax(Zero, MathMin(One, lastOp.given))

\* C14: once access is granted and the inputs have been enumerated, the
\* reported device name is the name of an input matching DDJ-200 whenever
\* one is present, wherever it stands in the enumeration; with no matching
\* input but at least one input, the first enumerated input is reported
\* (by its name, or as an unknown device if it has none), it has the
\* message handler and the hook is connected.
C14_Discovery ==
  (midiRequest = "granted" /\ stateChanges = 0) =>
    LET n == Len(midiInputs)
        matching == { i \in 1..n : midiInputs[i] \in {1, 4} }
    IN  IF matching # {}
        THEN \E i \in matching : midiDeviceName = DeviceName(midiInputs[i])
        ELSE n > 0 =>
               /\ midiDeviceName = IF midiInputs[1] = 3 THEN UnknownDevice
                                   ELSE DeviceName(midiInputs[1])
               /\ midiInputs[1] \in inputHandlers
               /\ isMidiConnected

\* the matching device is enumerated after two others and is the one
\* reported
C14_Witness ==
  /\ midiRequest = "granted"
  /\ stateChanges = 0
  /\ midiInputs = <<2, 3, 1>>
  /\ midiDeviceName = DeviceName(1)

\* C15: once access is granted, whenever every attach/detach event has been
\* handled, isMidiConnected is true exactly when an input is present and
\* every present input has the message handler; and isMidiConnected never
\* turns false while an input is present.
C15_HotPlug ==
  /\ []((midiRequest = "granted" /\ stateChanges = 0) =>
          /\ isMidiConnected <=> Len(midiInputs) > 0
          /\ \A i \in 1..Len(midiInputs) : midiInputs[i] \in inputHandlers)
  /\ [][(isMidiConnected /\ ~isMidiConnected') => Len(midiInputs') = 0]_vars

\* after two hot-plug events were handled, a MIDI event of a present input
\* was decoded
C15_Witness ==
  /\ midiRequest = "granted"
  /\ nHotplug = 2
  /\ stateChanges = 0
  /\ midiInputs = <<3, 2>>
  /\ inputHandlers = {2, 3}
  /\ isMidiConnected
  /\ lastOp.op = "midiMessage"

\* ------------------------------------------------------------------------
\* Properties of detectBPM (checked under SpecBpm)
\* ------------------------------------------------------------------------
\* C18: for every series and duration detectBPM returns 0 (undetermined) or
\* an integer from 60 to 180.
C18_BpmInRange ==
  \A i \in 1..Len(bpmOut) : bpmOut[i] = 0 \/ bpmOut[i] \in 60..180

\* C19: detectBPM returns 0 whenever the series has fewer than 100 samples,
\* whatever the duration, and whenever the duration is under 10 seconds,
\* whatever the series.
C19_TooShortUndetermined ==
  \A i \in 1..Len(bpmOut) :
    (Len(bpmWaveform) < 100 \/ RLt(bpmDuration, R(10, 1))) => bpmOut[i] = 0

\* a 99-sample pulse train of 20 seconds (with 100 samples its tempo is
\* found) was analysed
C19_Witness ==
  /\ bpmOut = <<0>>
  /\ bpmWaveform = PulseSeries(99, 4)
  /\ bpmDuration = R(20, 1)

\* C20: past the length and duration checks, detectBPM returns 0 whenever
\* no candidate lag (from minLag to maxLag and below half the onset count)
\* has a weighted correlation above 0; a result other than 0 is a
\* non-negative integer, the rounded BPM of a candidate lag of at least 1
\* with a weighted correlation above 0, so lag 0 is never converted.
C20_NoPositiveLagUndetermined ==
  \A i \in 1..Len(bpmOut) :
    (Len(bpmWaveform) >= 100 /\ ~RLt(bpmDuration, R(10, 1))) =>
      LET sps == RDiv(R(Len(bpmWaveform), 1), bpmDuration)
          minLag == MathFloor(RDiv(sps, R(3, 1)))
          maxLag == MathFloor(sps)
          w == IF MathFloor(RDiv(sps, R(20, 1))) > 3
               THEN MathFloor(RDiv(sps, R(20, 1))) ELSE 3
          onsets == bpmOnsets(bpmEnvelope(bpmWaveform, w))
          lags == { lag \in minLag..maxLag : 2 * lag < Len(onsets) }
          positive == { lag \in lags :
                          JsGreater(bpmCorrelation(onsets, lag, sps), Zero) }
      IN  /\ bpmOut[i] \in Nat
          /\ positive = {} => bpmOut[i] = 0
          /\ bpmOut[i] # 0 =>
                \E lag \in positive :
                  /\ lag >= 1
                  /\ bpmOut[i] = MathRound(RDiv(RMul(R(60, 1), sps), R(lag, 1)))

\* a series with onsets was analysed at fewer than one sample per second:
\* lag 0 is the only candidate and the result is undetermined
C20_Witness ==
  /\ bpmOut = <<0>>
  /\ bpmWaveform = PulseSeries(100, 2)
  /\ bpmDuration = R(180, 1)
  /\ bpmOnsets(bpmEnvelope(bpmWaveform, 3))[1] # Zero

\* ------------------------------------------------------------------------
\* Properties of youtubeWaveformMiddleware (checked under SpecWave)
\* ------------------------------------------------------------------------
\* The failures of the download path the handler can meet.
DownloadFailures ==
  {"resolve", "status", "body", "fetch", "read", "timeout", "stall", "tooSmall"}

\* C16: every response to a waveform request that names a track id is a 200
\* response carrying a waveform series; when resolving the download URL
\* failed, the download status was not OK, the body was missing, the fetch
\* or a read rejected, the timeout or the stall detector aborted, or fewer
\* than 1000 bytes arrived, the series is the synthetic one for the
\* request's sample count, duration and id and the response says synthetic.
C16_AlwaysAWaveform ==
  lastResponse # <<>> /\ lastResponse[1].videoId # "" =>
    LET r == lastResponse[1]
    IN  /\ r.statusCode = 200
        /\ "waveform" \in DOMAIN r.body
        /\ "error" \notin DOMAIN r.body
        /\ r.failure \in DownloadFailures =>
             /\ r.body.synthetic = TRUE
             /\ r.body.cached = FALSE
             /\ r.body.waveform = SyntheticSeries(r.samples, r.body.duration, r.videoId)
        /\ r.failure = "none" /\ r.stage = "reading" =>
             /\ r.body.synthetic = FALSE
             /\ r.body.waveform.source = "audio"

\* C16 witness: a request whose download stalled after its first chunk was
\* aborted by the stall detector and has been answered.
C16_Witness ==
  /\ lastResponse # <<>>
  /\ lastResponse[1].failure = "stall"
  /\ lastResponse[1].stage = "reading"
  /\ lastResponse[1].videoId = "a"

\* C17: a request that arrives after a request with the same (id, samples)
\* key completed through the analysis path is answered before any await,
\* with exactly the series that first analysis computed; and a response
\* served from the cache carries the entry of the request's own key.
C17_CacheReturnsFirstSeries ==
  lastResponse # <<>> /\ lastResponse[1].videoId # "" =>
    LET r == lastResponse[1]
        key == CacheKey(r.videoId, r.samples)
    IN  /\ r.late =>
             /\ r.stage = "idle"
             /\ r.body.cached = TRUE
             /\ r.body.waveform = firstAnalysed[key]
        /\ r.body.cached = TRUE =>
             /\ key \in DOMAIN waveformCache
             /\ r.body.waveform = waveformCache[key]

\* ------------------------------------------------------------------------
\* Properties of generateWaveformData (checked under SpecGen)
\* ------------------------------------------------------------------------
\* C21: the series generateWaveformData returns has as many values as the
\* sampleCount it was called with, whatever the buffer (also one with fewer
\* data bytes than sampleCount) and whichever return path is taken.
C21_LengthIsSampleCount ==
  genOut # NoOutput => Len(genOut[1]) = genSampleCount

\* C21 witness: a call on a non-empty buffer with fewer bytes than the
\* requested samples has returned.
C21_Witness ==
  /\ genOut # NoOutput
  /\ Len(genBuffer) > 0
  /\ Len(genBuffer) < genSampleCount

\* C22: when the largest window energy before normalisation is below 0.02
\* (as it is when every byte is 128), every value of the returned series is 0.
C22_QuietIsAllZero ==
  genOut # NoOutput =>
    LET waveform == rawWaveform(genBuffer, genSampleCount)
        quiet == \A i \in 1..Len(waveform) : RLt(waveform[i], QuietThreshold)
        silent == \A j \in 1..Len(genBuffer) : genBuffer[j] = ByteCentre
    IN  /\ silent => quiet
        /\ quiet => \A i \in 1..Len(genOut[1]) : genOut[1][i] = Zero
        /\ ~quiet => \E i \in 1..Len(genOut[1]) : genOut[1][i] # Zero

\* C22 witness: a call on a buffer that is not silent (bytes one off the
\* centre, a byte for every sample) but below the threshold has returned.
C22_Witness ==
  /\ genOut # NoOutput
  /\ genSampleCount > 0
  /\ Len(genBuffer) >= 2 * genSampleCount
  /\ \A j \in 1..Len(genBuffer) : genBuffer[j] = ByteCentre + 1

\* ------------------------------------------------------------------------
\* Properties of generateSyntheticWaveform (checked under SpecSyn)
\* ------------------------------------------------------------------------
\* C23: every value generateSyntheticWaveform pushes lies in [0.08, 1], for
\* every index, sample count, duration and id.
C23_SyntheticInRange ==
  synOut # NoOutput => RLe(R(2, 25), synOut[1]) /\ RLe(synOut[1], One)

CurveAtZero ==
  [deckAOpacity |-> One, deckBOpacity |-> Zero, deckAVolume |-> One, deckBVolume |-> Zero]
CurveAtOne ==
  [deckAOpacity |-> Zero, deckBOpacity |-> One, deckAVolume |-> Zero, deckBVolume |-> One]

\* C25: applyCurve returns a result for every position, and the result for a
\* position below 0 is the result for 0 and the result for a position above 1
\* is the result for 1.
C25_Saturates ==
  curveOut # NoOutput =>
    /\ DOMAIN curveOut[1] = DOMAIN CurveAtZero
    /\ RLt(curvePos, Zero) =>
         curveOut[1] = CurveAtZero /\ curveOut[1] = applyCurve(Zero, curveMode)
    /\ RLt(One, curvePos) =>
         curveOut[1] = CurveAtOne /\ curveOut[1] = applyCurve(One, curveMode)

\* C25 witness: applyCurve has returned for a position above 1.
C25_Witness == curveOut # NoOutput /\ RLt(One, curvePos)

DeckActionNames ==
  {"updateDeck", "toggleDeckPlay", "setDeckPlaying", "seekDeck", "clearSeek",
   "setDeckEQ", "setDeckGain"}
DeckNamed(call) ==
  IF call.op \in {"toggleDeckPlay", "clearSeek"} THEN call.given ELSE call.given[1]
FieldsNamed(call) ==
  CASE call.op = "updateDeck" -> DOMAIN call.given[2]
    [] call.op \in {"toggleDeckPlay", "setDeckPlaying"} -> {"playing"}
    [] call.op \in {"seekDeck", "clearSeek"} -> {"seekTo"}
    [] call.op = "setDeckEQ" -> {"eq"}
    [] OTHER -> {"gain"}

\* C27: a deck action (update, toggle play, set playing, seek, clear seek,
\* set EQ, set gain, for deck A or deck B) leaves every store field other
\* than its deck unchanged, and within its deck changes only the fields it
\* names (for the EQ action: only the bands it names); no field is dropped.
C27_DeckActionsMerge ==
  [][nMut' # nMut /\ lastOp'.op \in DeckActionNames =>
       LET d == DeckNamed(lastOp')
           named == FieldsNamed(lastOp')
       IN  /\ DOMAIN store' = DOMAIN store
           /\ \A f \in DOMAIN store \ {d} : store'[f] = store[f]
           /\ DOMAIN store'[d] = DOMAIN store[d]
           /\ \A g \in DOMAIN store[d] \ named : store'[d][g] = store[d][g]
           /\ lastOp'.op = "setDeckEQ" =>
                /\ DOMAIN store'[d].eq = DOMAIN store[d].eq
                /\ \A band \in DOMAIN store[d].eq \ DOMAIN lastOp'.given[2] :
                     store'[d].eq[band] = store[d].eq[band]
           /\ lastOp'.op = "updateDeck" =>
                \A g \in named : store'[d][g] = lastOp'.given[2][g]]_vars

\* C27 witness: updateDeckA with track metadata ran on a deck A that was
\* already playing, and the deck still plays.
C27_Witness ==
  /\ lastOp.op = "updateDeck"
  /\ lastOp.given[1] = "deckA"
  /\ "videoId" \in DOMAIN lastOp.given[2]
  /\ store.deckA.videoId = "v1"
  /\ store.deckA.playing

C29_MountedGetsFullState ==
  (lastOp.op = "projectorMount") ~>
    \/ projState # "mounted"
    \/ /\ lastOp.op = "deliver"
       /\ lastOp.given.type = "FULL_STATE"
       /\ lastOp.given.from = "primary"

\* ------------------------------------------------------------------------
\* Single writer (checked under SpecOpen)
\* ------------------------------------------------------------------------
\* steps in which a message is posted on the channel by a context other than
\* the primary, or taken from the projector's queue
ChannelSteps == {"externalPost", "projectorMount", "deliver"}
\* the primary's own calls on its store
LocalSteps == {"setCrossfader", "applyStateUpdate"}

\* C30: a step in which a message is posted by another context or handled by
\* the projector leaves the primary's store as it was; the store changes
\* only in the primary's own store calls; and the state of a projector that
\* stays mounted changes only when it handles a message from its queue, to
\* what handleBroadcastMessage makes of that message.
C30_SingleWriter ==
  [][/\ lastOp'.op \in ChannelSteps => store' = store
     /\ store' # store => lastOp'.op \in LocalSteps
     /\ (projState = "mounted" /\ projState' = "mounted" /\ mirror' # mirror) =>
          /\ lastOp'.op = "deliver"
          /\ lastOp'.given \in inbox
          /\ mirror' = handleBroadcastMessage(mirror, lastOp'.given)]_vars

\* another context's FULL_STATE has been handled by the projector and shows
\* there, while the primary's store, which was changed locally before, has
\* not taken it
C30_Witness ==
  /\ lastOp.op = "deliver"
  /\ lastOp.given.from = "other"
  /\ lastOp.given.type = "FULL_STATE"
  /\ mirror.crossfaderValue = R(0 - 1, 2)
  /\ mirror.crossfaderCurve = "cut"
  /\ store.crossfaderValue = One
  /\ store.crossfaderCurve = DEFAULT_DJ_STATE.crossfaderCurve

\* ------------------------------------------------------------------------
\* Depth of the STATE_UPDATE merge (checked under SpecOpen)
\* ------------------------------------------------------------------------
\* C31: when the projector handles a STATE_UPDATE, every top-level field of
\* the patch becomes the mirror's field as a whole (a deckA in the patch is
\* the mirror's deckA afterwards, fields it lacks are gone), and the
\* top-level fields absent from the patch stay as they were.
C31_ShallowMerge ==
  [][(lastOp'.op = "deliver" /\ lastOp'.given.type = "STATE_UPDATE") =>
       /\ \A f \in DOMAIN lastOp'.given.payload : mirror'[f] = lastOp'.given.payload[f]
       /\ \A f \in (DOMAIN mirror) \ (DOMAIN lastOp'.given.payload) : mirror'[f] = mirror[f]]_vars

\* a patch holding a deckA of one field has been handled: the mirror's deckA
\* is that record, without the title, gain or eq the default deck had
C31_Witness ==
  /\ lastOp.op = "deliver"
  /\ lastOp.given.type = "STATE_UPDATE"
  /\ "deckA" \in DOMAIN lastOp.given.payload
  /\ mirror.deckA = [playing |-> TRUE]
  /\ DOMAIN mirror.deckA # DOMAIN DEFAULT_DECK_STATE
  /\ mirror.deckB = DEFAULT_DECK_STATE

\* ------------------------------------------------------------------------
\* Stall detection and timers of the download (checked under SpecWave)
\* ------------------------------------------------------------------------
\* C32: while a download is being read, once a tick of the interval has
\* found that no byte arrived since the tick before it (and none has
\* arrived since), the download is aborted, also when no byte has been
\* received at all.
C32_EveryIdleTickAborts ==
  \A s \in Slots :
    ( /\ waveSlots[s].pc = "reading"
      /\ waveSlots[s].idleTick
      /\ waveSlots[s].received = waveSlots[s].lastReceivedBytes ) =>
      waveSlots[s].aborted # "no"

\* C33: a request whose download has been started (fetch called, or its
\* body being read) eventually sends its response, whatever the remote
\* server does.
C33_DownloadEnds ==
  \A s \in Slots :
    (waveSlots[s].pc \in {"fetching", "reading"}) ~>
      (waveSlots[s].pc = "idle" /\ lastResponse # <<>>)

\* a body that delivered nothing was cut by the timeout after the interval
\* had fired twice without aborting, and the request was answered
C33_Witness ==
  /\ lastResponse # <<>>
  /\ lastResponse[1].stage = "reading"
  /\ lastResponse[1].failure = "timeout"
  /\ lastResponse[1].statusCode = 200
  /\ lastResponse[1].body.synthetic = TRUE

\* C34: when a waveform request has sent its response, neither its 30 s
\* timeout nor its progress interval is still armed.
C34_TimersCleared ==
  lastResponse # <<>> =>
    /\ ~lastResponse[1].timeoutArmed
    /\ ~lastResponse[1].intervalArmed

\* ------------------------------------------------------------------------
\* Concurrent and cached requests (checked under SpecWave)
\* ------------------------------------------------------------------------
\* the awaits of the download: fetch and the read loop
Downloading == {"fetching", "reading"}

\* C35: two requests with the same (id, samples) key are never both
\* downloading the audio: the second one waits for, or reuses, the first
\* one's result.
C35_OneDownloadPerKey ==
  \A s, t \in Slots :
    ( /\ s # t
      /\ waveSlots[s].pc \in Downloading
      /\ CacheKey(waveSlots[s].videoId, waveSlots[s].samples)
           = CacheKey(waveSlots[t].videoId, waveSlots[t].samples) ) =>
      waveSlots[t].pc \notin Downloading

\* C36: a response served from the cache says what the response that filled
\* the entry said: it carries a duration and a bpm, and its synthetic flag
\* tells whether the series came from the synthetic fallback.
C36_CachedSameAsFirst ==
  (lastResponse # <<>> /\ lastResponse[1].statusCode = 200
     /\ lastResponse[1].body.cached = TRUE) =>
    LET body == lastResponse[1].body
    IN  /\ "duration" \in DOMAIN body
        /\ "bpm" \in DOMAIN body
        /\ body.synthetic = (body.waveform.source = "synthetic")

\* ------------------------------------------------------------------------
\* Unmounting the MIDI hook (checked under SpecHookLife)
\* ------------------------------------------------------------------------
\* C37: once the hook is unmounted no input carries the message handler, no
\* statechange awaits handling and no MIDI event reaches a callback; and if
\* it was unmounted before the access request resolved, isMidiConnected is
\* false and stays so when the request resolves.
C37_UnmountDetaches ==
  ~hookMounted =>
    /\ inputHandlers = {}
    /\ ~midiAttached
    /\ stateChanges = 0
    /\ lastOp.op # "midiMessage"
    /\ ~midiAccessRef => ~isMidiConnected

\* ------------------------------------------------------------------------
\* Seeking: the store's seekTo, VideoMixer and VideoPlayer's seek effect
\* ------------------------------------------------------------------------
\* a track of the playlist as handleLoadToDeckA/B store it
LoadedTrack == [videoId |-> "v1", title |-> "t1", artist |-> "c1"]

\* what player.getDuration() returns in handleReady
ReadyDuration == Two

\* the times a seek can ask for
PlayerSeekTimes == { Zero, One }

\* the effect with dependencies [seekTo, onSeekComplete] is due when the
\* seekTo prop differs from the one its last run saw (clearSeekA/B never
\* change)
SeekEffectDue(d) == players[d].seen # store[d].seekTo

\* PlaylistPanel's load button: handleLoadToDeckA/B
LoadTrack(d) == UpdateDeck(d, LoadedTrack)

\* onReady of the YouTube component, rendered once the deck has a videoId:
\* handleReady sets playerRef and isReadyRef and reports the duration through
\* onTimeUpdate(0, duration), which VideoMixer passes to updateDeckA/B. No
\* dependency of the seek effect changes, so the effect does not run
PlayerReady(d) ==
  /\ store[d].videoId # ""
  /\ ~players[d].ready
  /\ players' = [players EXCEPT ![d].ready = TRUE]
  /\ StoreApply("playerReady", d,
                updateDeck(store, d, [currentTime |-> Zero, duration |-> ReadyDuration]))
  /\ UNCHANGED <<midiAttached, otherVars>>

\* seekDeckA/B(time) from a caller; React has run the effects of the
\* previous store change before the next event is handled
SeekRequest(d, time) ==
  /\ ~SeekEffectDue(d)
  /\ SeekDeck(d, time)

\* VideoPlayer's seek effect after a render in which seekTo changed: it
\* returns if seekTo is null or the player is not ready, else it calls
\* player.seekTo(seekTo, true) and onSeekComplete, which is clearSeekA/B
RunSeekEffect(d) ==
  /\ SeekEffectDue(d)
  /\ LET seekTo == store[d].seekTo
     IN  IF seekTo = Null \/ ~players[d].ready
         THEN /\ players' = [players EXCEPT ![d].seen = seekTo]
              /\ lastOp' = [op |-> "seekEffect", given |-> d]
              /\ UNCHANGED <<store, projState, timers, mirror, inbox, nPosted, lastPosted,
                             lastMutId, inOrder, nMut, nOpen, nForeign, curveVars,
                             midiVars, serverVars>>
         ELSE /\ players' = [players EXCEPT ![d].seen = seekTo,
                                             ![d].seeks = Append(@, seekTo)]
              /\ StoreApply("clearSeek", d, clearSeek(store, d))
  /\ UNCHANGED <<midiAttached, otherVars>>

\* the decks' players in the primary: tracks are loaded, players become
\* ready, seeks are requested and the seek effects run
NextSeek ==
  \/ \E d \in Decks : LoadTrack(d)
  \/ \E d \in Decks : PlayerReady(d)
  \/ \E d \in Decks, time \in PlayerSeekTimes : SeekRequest(d, time)
  \/ \E d \in Decks : RunSeekEffect(d)

\* React runs an effect that is due, and a YouTube player that was created
\* loads and fires onReady; nothing obliges the user to load or to seek
SpecSeek ==
  /\ InitSync
  /\ [][NextSeek]_vars
  /\ \A d \in Decks : WF_vars(RunSeekEffect(d)) /\ WF_vars(PlayerReady(d))

\* C38: every seek request is eventually served: with seekTo set to a time,
\* the deck's player is eventually asked to seek and seekTo is back to null,
\* whether the player was ready when the request was made or not.
C38_SeekServed ==
  \A d \in Decks :
    (store[d].seekTo # Null) ~> (store[d].seekTo = Null)

\* ------------------------------------------------------------------------
\* Ranges of gain and volume (checked under SpecStore)
\* ------------------------------------------------------------------------
\* C39: in every state of the store each deck's gain is between 0 and 1.5
\* and the master volume is between 0 and 1, whatever store actions ran.
C39_GainAndVolumeInRange ==
  /\ \A d \in Decks : RLe(Zero, store[d].gain) /\ RLe(store[d].gain, R(3, 2))
  /\ RLe(Zero, store.master.volume) /\ RLe(store.master.volume, One)

====
